---- MODULE Spec2Model ----
(***************************************************************************)
(* State-machine model of the MindChat service worker (src/public/sw.js): *)
(* the fetch handler with its three caching strategies, the fallback      *)
(* generator, the write path with the Outbox, the clear-all command, the   *)
(* Sync Coordinator (sync / periodicsync listeners, SYNC_NOW, replay), the *)
(* batch sync channels with the backend they post to                       *)
(* (src/unnamed/part_000), the periodic checks, the message listener, and  *)
(* the install and activate listeners.                                     *)
(*                                                                         *)
(* Every `await` of the source is a step of its own, with two reductions: *)
(* `caches.open(name)` and the `cache.match` / `cache.put` that follows   *)
(* it without any other statement in between are one step (a deletion     *)
(* that falls between the two is observed as falling before or after).    *)
(*                                                                         *)
(* Platform semantics the model relies on:                                *)
(*  - caches.open creates the partition when it does not exist;           *)
(*  - caches.delete detaches the partition from its name: a handle opened *)
(*    before the deletion writes into a cache nobody can open any more;   *)
(*  - cache.put may reject (quota); fetch may reject (network down);      *)
(*  - fetch(request) consumes the body of `request`: a later              *)
(*    request.text() rejects with a TypeError unless the body is null.    *)
(*  - pending_requests hands out increasing keys; getAll returns the      *)
(*    records in key order; a delete issued after a 2xx answer is         *)
(*    complete before any transaction created later reads the store.      *)
(*  - new Date('YYYY-MM-DD') is the midnight (UTC) of that date;            *)
(*  - the global localStorage is not defined in a service worker scope;    *)
(*  - cache.addAll stores all the answers or none; cache.add rejects on an *)
(*    answer that is not 2xx;                                               *)
(*  - a worker whose install promise rejects becomes redundant.            *)
(***************************************************************************)
EXTENDS Integers, Sequences, FiniteSets, TLC

VARIABLES
    cacheExists,   \* partition name -> does the partition exist
    cacheContent,  \* partition name -> (url -> stored snapshot or NoResp)
    task,          \* fetch-event slot -> the state of the handler running in it
    outbox,        \* object store pending_requests, in key order
    nextId,        \* the key generator of pending_requests (autoIncrement)
    clearPending,  \* clearAllCaches: the names caches.keys() returned, to delete
    now,           \* Date.now()
    sync,          \* replay slot -> the state of the syncPendingRequests call in it
    registered,    \* the tags triggerSync registered, not yet delivered as sync events
    answered,      \* the keys of the entries whose replayed request was answered 2xx
    lastEvent,     \* the last sync / periodicsync / message event and what it started
    moodData,      \* object store mood_data: date -> value (0: no record)
    progressData,  \* object store session_progress: the sessionIds it holds
    localStorage,  \* the dates d for which the page stored the key mood_<d>
    periodic,      \* the state of the periodic check running, if any
    batch,         \* the state of the batch sync running, if any
    worker,        \* the lifecycle of this worker instance
    oldCaches,     \* the partitions of other versions that exist
    audioJob       \* the state of cacheAudioFile, if it is running

vars == <<cacheExists, cacheContent, task, outbox, nextId, clearPending,
          now, sync, registered, answered, lastEvent,
          moodData, progressData, localStorage, periodic, batch,
          worker, oldCaches, audioJob>>

\* the local collections and the jobs that read them
dataVars == <<moodData, progressData, localStorage, periodic, batch>>

\* what the fetch handlers and the replay leave alone
hostVars == <<moodData, progressData, localStorage, periodic, batch,
              worker, oldCaches, audioJob>>

\* the state of the Sync Coordinator, which the fetch handlers leave alone
syncVars == <<now, sync, registered, answered, lastEvent>>

---------------------------------------------------------------------------
(* Bounds of the model *)

\* concurrent fetch events of the concurrent specification
NumTasks == 2
\* distinct bodies the network may answer with for one url
MaxBody == 1
\* capacity of the Outbox before a write to it is refused (quota)
MaxOutbox == 2
\* concurrent calls of syncPendingRequests
NumRuns == 2
\* the last value of the clock
MaxClock == 1
\* the keys the key generator of pending_requests may hand out
MaxEnqueued == 3
\* the day of the periodic checks; mood records are dated 0..LastDay
LastDay == 3
\* the instants of a day the clock distinguishes (0 is midnight)
TicksPerDay == 2
\* session_progress records the page may hold
MaxSessions == 1

---------------------------------------------------------------------------
(* Program constants *)

STATIC_CACHE == "mindchat-static-v1"
DYNAMIC_CACHE == "mindchat-dynamic-v1"
AUDIO_CACHE == "mindchat-audio-v1"

CacheNames == {STATIC_CACHE, DYNAMIC_CACHE, AUDIO_CACHE}

\* A path is the sequence of its "/" separators and segments, so that
\* endsWith / includes / startsWith are computed on it as on the string.
PRoot == <<"/">>
PIndex == <<"/", "index.html">>
PManifest == <<"/", "manifest.json">>
PIcon192 == <<"/", "icons", "/", "icon-192x192.png">>
PIcon512 == <<"/", "icons", "/", "icon-512x512.png">>

STATIC_ASSETS == {PRoot, PIndex, PManifest, PIcon192, PIcon512}

PAudioNs == <<"/", "audio", "/">>
PApiNs == <<"/", "api", "/">>

\* paths requested in the model
PApiMood == <<"/", "api", "/", "mood">>
PApiAudio == <<"/", "api", "/", "audio", "/", "list">>
PApiIndex == <<"/", "api", "/", "index.html">>
PAudioBreathing == <<"/", "audio", "/", "breathing-basics-64k.mp3">>
PAudioIndex == <<"/", "audio", "/", "index.html">>
PStyles == <<"/", "styles.css">>
PContact == <<"/", "contact">>

AllPaths ==
    {PRoot, PApiMood, PApiIndex, PApiAudio, PAudioBreathing, PAudioIndex,
     PStyles, PContact} \cup STATIC_ASSETS

\* String.prototype.endsWith / startsWith / includes on paths
EndsWith(p, a) ==
    /\ Len(p) >= Len(a)
    /\ SubSeq(p, Len(p) - Len(a) + 1, Len(p)) = a

StartsWith(p, a) ==
    /\ Len(p) >= Len(a)
    /\ SubSeq(p, 1, Len(a)) = a

Includes(p, a) ==
    \E i \in 1..(Len(p) - Len(a) + 1) : SubSeq(p, i, i + Len(a) - 1) = a

\* The Accept header: absent (<<>>) or a list of media types <<type, subtype>>.
\* headers.get('Accept')?.includes(s) is undefined (falsy) when absent.
AcceptNone == <<>>
AcceptAny == << <<"*", "*">> >>
AcceptJson == << <<"application", "json">> >>
AcceptHtml == << <<"text", "html">>, <<"application", "xhtml+xml">> >>
AcceptImage == << <<"image", "webp">>, <<"*", "*">> >>
AcceptNav == << <<"text", "html">>, <<"image", "webp">>, <<"*", "*">> >>

AcceptIncludesHtml(a) == \E i \in 1..Len(a) : a[i] = <<"text", "html">>
AcceptIncludesImage(a) == \E i \in 1..Len(a) : a[i][1] = "image"

\* request bodies: null, or some payload
NullBody == "null"
Payload == "payload"

Req(m, p, a, b) == [method |-> m, path |-> p, accept |-> a, body |-> b]

NoReq == Req("none", <<>>, <<>>, NullBody)

---------------------------------------------------------------------------
(* Responses *)

NoJson == {}

Resp(src, url, body, status, ctype, json) ==
    [src |-> src, url |-> url, body |-> body, status |-> status,
     ctype |-> ctype, json |-> json]

\* "no response": undefined from cache.match, or nothing fetched yet
NoResp == Resp("none", <<>>, 0, 0, "", NoJson)

\* the rejection the requester sees when respondWith's promise rejects, or
\* when an unhandled request fails on the network
ErrResp == Resp("error", <<>>, 0, 0, "", NoJson)

NetResp(u, b, s) == Resp("network", u, b, s, "origin", NoJson)

\* How a fetch can settle: <<b, 200>> one of the documents of the url,
\* <<0, 500>> the server's error answer, <<0, 0>> a rejection (network down)
Rejected == <<0, 0>>
ServerError == <<0, 500>>

FetchKinds == {<<b, 200>> : b \in 1..MaxBody} \cup {ServerError, Rejected}

\* the kinds of the sequential specification: one document, or a rejection
SeqKinds == {<<1, 200>>, Rejected}

Outcome(u, k) == IF k = Rejected THEN ErrResp ELSE NetResp(u, k[1], k[2])

\* what the network can answer for a url
NetResponses(u) == {Outcome(u, k) : k \in FetchKinds \ {Rejected}}

\* a fetch settles with a response or rejects
FetchOutcomes(u) == {Outcome(u, k) : k \in FetchKinds}

OfflineText ==
    Resp("fallback", <<>>, 0, 503, "text/plain",
         {<<"text", "Offline - Please check your connection">>})

OfflineJson ==
    Resp("fallback", <<>>, 0, 503, "application/json",
         {<<"error", "Offline">>,
          <<"message", "This feature requires internet connection">>,
          <<"offline", "true">>})

\* new Response(svg, {headers}) has the default status 200
PlaceholderSvg ==
    Resp("fallback", <<>>, 0, 200, "image/svg+xml", {<<"svg", "Offline">>})

Unavailable ==
    Resp("fallback", <<>>, 0, 503, "",
         {<<"text", "Resource unavailable offline">>})

QueuedAck ==
    Resp("ack", <<>>, 0, 200, "application/json",
         {<<"success", "true">>, <<"offline", "true">>,
          <<"message", "Data queued for sync when online">>})

---------------------------------------------------------------------------
(* Pure parts of the handlers *)

\* a manifest test that compares the whole path
IsStaticAsset_WholePath(p) == p \in STATIC_ASSETS

\* STATIC_ASSETS.some(asset => url.pathname.endsWith(asset))
IsStaticAsset(p) == \E asset \in STATIC_ASSETS : EndsWith(p, asset)

\* a classifier that tests the API namespace before the audio namespace
handleGetRequest_ApiBeforeAudio(p) ==
    IF IsStaticAsset(p)
    THEN [strategy |-> "cacheFirst", cacheName |-> STATIC_CACHE]
    ELSE IF StartsWith(p, PApiNs)
    THEN [strategy |-> "networkFirst", cacheName |-> DYNAMIC_CACHE]
    ELSE IF Includes(p, PAudioNs)
    THEN [strategy |-> "cacheFirst", cacheName |-> AUDIO_CACHE]
    ELSE [strategy |-> "staleWhileRevalidate", cacheName |-> DYNAMIC_CACHE]

\* handleGetRequest: the strategy and the partition chosen for a path
handleGetRequest(p) ==
    IF IsStaticAsset(p)
    THEN [strategy |-> "cacheFirst", cacheName |-> STATIC_CACHE]
    ELSE IF Includes(p, PAudioNs)
    THEN [strategy |-> "cacheFirst", cacheName |-> AUDIO_CACHE]
    ELSE IF StartsWith(p, PApiNs)
    THEN [strategy |-> "networkFirst", cacheName |-> DYNAMIC_CACHE]
    ELSE [strategy |-> "staleWhileRevalidate", cacheName |-> DYNAMIC_CACHE]

\* a fallback generator that tests the Accept header for images before the
\* API namespace
getFallbackResponse_ImageBeforeApi(r, shell) ==
    IF AcceptIncludesHtml(r.accept)
    THEN (IF shell # NoResp THEN shell ELSE OfflineText)
    ELSE IF AcceptIncludesImage(r.accept)
    THEN PlaceholderSvg
    ELSE IF StartsWith(r.path, PApiNs)
    THEN OfflineJson
    ELSE Unavailable

\* a fallback generator that tests the API namespace before the Accept header
getFallbackResponse_ApiBeforeHtml(r, shell) ==
    IF StartsWith(r.path, PApiNs)
    THEN OfflineJson
    ELSE IF AcceptIncludesHtml(r.accept)
    THEN (IF shell # NoResp THEN shell ELSE OfflineText)
    ELSE IF AcceptIncludesImage(r.accept)
    THEN PlaceholderSvg
    ELSE Unavailable

\* getFallbackResponse, given what cache.match('/') on the static partition
\* returned (NoResp for undefined)
getFallbackResponse(r, shell) ==
    IF AcceptIncludesHtml(r.accept)
    THEN (IF shell # NoResp THEN shell ELSE OfflineText)
    ELSE IF StartsWith(r.path, PApiNs)
    THEN OfflineJson
    ELSE IF AcceptIncludesImage(r.accept)
    THEN PlaceholderSvg
    ELSE Unavailable

\* the record storeForBackgroundSync builds from a request whose body is
\* readable: request.text() of a null body is the empty string
requestData(r, id, ts) ==
    [id |-> id, url |-> r.path, method |-> r.method, headers |-> r.accept,
     body |-> IF r.body = NullBody THEN "" ELSE r.body, timestamp |-> ts]

\* fetch(request) has consumed the body: request.text() rejects unless the
\* body is null
BodyReadableAfterFetch(r) == r.body = NullBody

---------------------------------------------------------------------------
(* Handler state *)

IdleTask ==
    [req |-> NoReq, pc |-> "idle", strategy |-> "none", cacheName |-> "none",
     handleLive |-> FALSE, cached |-> NoResp, net |-> NoResp,
     netState |-> "none", putState |-> "none", nfetch |-> 0,
     bg |-> "none", result |-> NoResp]

Tasks == 1..NumTasks

\* a call of syncPendingRequests: the entries getAll returned, the position
\* of the loop in them (the request of entry i is in flight), and the position
\* of the first entry whose request was rejected or answered non-2xx (0: none)
IdleRun == [pc |-> "idle", requests |-> <<>>, i |-> 0, failedAt |-> 0]

Runs == 1..NumRuns

NoEvent == [event |-> "none", tag |-> "none", handler |-> "none"]

\* the dates of mood records
Dates == 0..LastDay

Sessions == 1..MaxSessions

NoMoodData == [d \in Dates |-> 0]

\* a periodic check: the handler running, the notifications it has shown,
\* whether it ended in its catch, the requests it has made, and whether the
\* network was reachable while it ran
IdlePeriodic ==
    [pc |-> "idle", handler |-> "none", shown |-> <<>>, failed |-> FALSE,
     nreq |-> 0, online |-> TRUE]

\* a batch sync: the handler running, the records it read and sent, the
\* requests it has made
IdleBatch ==
    [pc |-> "idle", handler |-> "none", url |-> <<>>, sent |-> NoJson,
     nreq |-> 0, answer |-> <<0, 0>>]

\* a worker instance: its state, the two halves of its install step, who
\* called skipWaiting, the position of its activate handler, the names
\* caches.keys() gave that handler, and whether clients.claim() was called
Worker(st) ==
    [state |-> st, static |-> "none", audio |-> "none", skipWaiting |-> {},
     pc |-> "none", keys |-> {}, claimed |-> FALSE]

\* a call of cacheAudioFile: the url to add, and whether the partition its
\* handle was opened on is still the one of that name
IdleAudio == [pc |-> "idle", url |-> <<>>, handleLive |-> FALSE]

EmptyCache == [u \in AllPaths |-> NoResp]

\* the state with no partition and nothing queued, at time clock, with the
\* partitions old of other versions, and the worker instance w
InitAt(clock, old, w) ==
    /\ cacheExists = [n \in CacheNames |-> FALSE]
    /\ cacheContent = [n \in CacheNames |-> EmptyCache]
    /\ task = [t \in Tasks |-> IdleTask]
    /\ outbox = <<>>
    /\ nextId = 1
    /\ clearPending = {}
    /\ now = clock
    /\ sync = [s \in Runs |-> IdleRun]
    /\ registered = {}
    /\ answered = {}
    /\ lastEvent = NoEvent
    /\ moodData = NoMoodData
    /\ progressData = {}
    /\ localStorage = {}
    /\ periodic = IdlePeriodic
    /\ batch = IdleBatch
    /\ worker = w
    /\ oldCaches = old
    /\ audioJob = IdleAudio

\* the active worker after a clear-all, or before anything was cached
Init == InitAt(0, {}, Worker("activated"))

---------------------------------------------------------------------------
(* Cache storage primitives *)

\* cache.match(url) on a partition just opened
Match(n, u) == cacheContent[n][u]

\* caches.open(n): the partition exists afterwards
Opened(n) == [cacheExists EXCEPT ![n] = TRUE]

\* a put that keeps the snapshot that is there
Stored_KeepsFirst(n, live, u, resp) ==
    IF live /\ cacheContent[n][u] = NoResp
    THEN [cacheContent EXCEPT ![n][u] = resp]
    ELSE cacheContent

\* a put that makes room by evicting the other entries of the partition
Stored_EvictsOthers(n, live, u, resp) ==
    IF live
    THEN [cacheContent EXCEPT
             ![n] = [x \in AllPaths |-> IF x = u THEN resp ELSE NoResp]]
    ELSE cacheContent

\* cache.put(url, resp) through a handle: a handle whose partition has been
\* deleted since it was opened writes into a detached cache
Stored(n, live, u, resp) ==
    IF live THEN [cacheContent EXCEPT ![n][u] = resp] ELSE cacheContent

---------------------------------------------------------------------------
(* The fetch listener *)

\* the handler the fetch listener starts for a request: respondWith with
\* handleGetRequest or handlePostRequest, or nothing (the browser then
\* performs the request itself)
FetchListener(r) ==
    IF r.method = "GET"
    THEN LET c == handleGetRequest(r.path)
             base == [IdleTask EXCEPT !.req = r, !.strategy = c.strategy,
                                      !.cacheName = c.cacheName]
         IN  IF c.strategy = "cacheFirst"
             THEN [base EXCEPT !.pc = "cf_match"]
             ELSE IF c.strategy = "networkFirst"
             THEN [base EXCEPT !.pc = "nf_fetch", !.nfetch = 1]
             ELSE [base EXCEPT !.pc = "swr_match"]
    ELSE IF r.method = "POST"
    THEN [IdleTask EXCEPT !.req = r, !.strategy = "write",
                          !.pc = "post_fetch", !.nfetch = 1]
    ELSE [IdleTask EXCEPT !.req = r, !.strategy = "passthrough",
                          !.pc = "pass_fetch", !.nfetch = 1]

\* a slot is free when its response has been delivered and no background
\* revalidation of it is still running
SlotFree(t) ==
    /\ task[t].pc \in {"idle", "done"}
    /\ task[t].bg \notin {"fetching", "putting"}

FetchEvent(t, r) ==
    /\ SlotFree(t)
    /\ task' = [task EXCEPT ![t] = FetchListener(r)]
    /\ UNCHANGED <<cacheExists, cacheContent, outbox, nextId, clearPending>>
    /\ UNCHANGED syncVars
    /\ UNCHANGED hostVars

---------------------------------------------------------------------------
(* cacheFirstStrategy *)

\* a cache-first that fetches whether or not there is a snapshot
cacheFirstMatched_AlwaysFetch(tk, hit) ==
    [tk EXCEPT !.cached = hit, !.handleLive = TRUE, !.nfetch = tk.nfetch + 1,
               !.pc = "cf_fetch"]

\* after cache.match: serve the snapshot, or call fetch
cacheFirstMatched(tk, hit) ==
    IF hit # NoResp
    THEN [tk EXCEPT !.cached = hit, !.result = hit, !.pc = "done"]
    ELSE [tk EXCEPT !.handleLive = TRUE, !.nfetch = tk.nfetch + 1,
                    !.pc = "cf_fetch"]

CfMatch(t) ==
    /\ task[t].pc = "cf_match"
    /\ cacheExists' = Opened(task[t].cacheName)
    /\ task' = [task EXCEPT ![t] =
                  cacheFirstMatched(@, Match(task[t].cacheName, task[t].req.path))]
    /\ UNCHANGED <<cacheContent, outbox, nextId, clearPending>>
    /\ UNCHANGED syncVars
    /\ UNCHANGED hostVars

\* fetch settled: a rejection leaves cacheFirstStrategy as an exception, which
\* handleGetRequest catches
cacheFirstFetched(tk, o) ==
    IF o = ErrResp
    THEN [tk EXCEPT !.netState = "failed", !.handleLive = FALSE,
                    !.pc = "fallback"]
    ELSE [tk EXCEPT !.netState = "ok", !.net = o, !.pc = "cf_put"]

CfFetch(t, o) ==
    /\ task[t].pc = "cf_fetch"
    /\ o \in FetchOutcomes(task[t].req.path)
    /\ task' = [task EXCEPT ![t] = cacheFirstFetched(@, o)]
    /\ UNCHANGED <<cacheExists, cacheContent, outbox, nextId, clearPending>>
    /\ UNCHANGED syncVars
    /\ UNCHANGED hostVars

\* await cache.put(...) settled: a rejection is an exception of the strategy
cacheFirstPut(tk, ok) ==
    IF ok
    THEN [tk EXCEPT !.putState = "ok", !.handleLive = FALSE,
                    !.result = tk.net, !.pc = "done"]
    ELSE [tk EXCEPT !.putState = "failed", !.handleLive = FALSE,
                    !.pc = "fallback"]

CfPut(t, ok) ==
    /\ task[t].pc = "cf_put"
    /\ cacheContent' =
         IF ok
         THEN Stored(task[t].cacheName, task[t].handleLive,
                     task[t].req.path, task[t].net)
         ELSE cacheContent
    /\ task' = [task EXCEPT ![t] = cacheFirstPut(@, ok)]
    /\ UNCHANGED <<cacheExists, outbox, nextId, clearPending>>
    /\ UNCHANGED syncVars
    /\ UNCHANGED hostVars

---------------------------------------------------------------------------
(* networkFirstStrategy *)

networkFirstFetched(tk, o) ==
    IF o = ErrResp
    THEN [tk EXCEPT !.netState = "failed", !.pc = "nf_catch"]
    ELSE [tk EXCEPT !.netState = "ok", !.net = o, !.pc = "nf_put"]

NfFetch(t, o) ==
    /\ task[t].pc = "nf_fetch"
    /\ o \in FetchOutcomes(task[t].req.path)
    /\ task' = [task EXCEPT ![t] = networkFirstFetched(@, o)]
    /\ UNCHANGED <<cacheExists, cacheContent, outbox, nextId, clearPending>>
    /\ UNCHANGED syncVars
    /\ UNCHANGED hostVars

\* caches.open and cache.put inside the try block: a rejected put is caught
\* by the strategy's own catch
networkFirstPut(tk, ok) ==
    IF ok
    THEN [tk EXCEPT !.putState = "ok", !.result = tk.net, !.pc = "done"]
    ELSE [tk EXCEPT !.putState = "failed", !.pc = "nf_catch"]

NfPut(t, ok) ==
    /\ task[t].pc = "nf_put"
    /\ cacheExists' = Opened(task[t].cacheName)
    /\ cacheContent' =
         IF ok
         THEN Stored(task[t].cacheName, TRUE, task[t].req.path, task[t].net)
         ELSE cacheContent
    /\ task' = [task EXCEPT ![t] = networkFirstPut(@, ok)]
    /\ UNCHANGED <<outbox, nextId, clearPending>>
    /\ UNCHANGED syncVars
    /\ UNCHANGED hostVars

\* the catch block: the snapshot if there is one, else rethrow
networkFirstCaught(tk, hit) ==
    IF hit # NoResp
    THEN [tk EXCEPT !.cached = hit, !.result = hit, !.pc = "done"]
    ELSE [tk EXCEPT !.pc = "fallback"]

NfCatch(t) ==
    /\ task[t].pc = "nf_catch"
    /\ cacheExists' = Opened(task[t].cacheName)
    /\ task' = [task EXCEPT ![t] =
                  networkFirstCaught(@, Match(task[t].cacheName, task[t].req.path))]
    /\ UNCHANGED <<cacheContent, outbox, nextId, clearPending>>
    /\ UNCHANGED syncVars
    /\ UNCHANGED hostVars

---------------------------------------------------------------------------
(* staleWhileRevalidateStrategy *)

\* a stale-while-revalidate that awaits the fetch even with a snapshot
staleWhileRevalidateMatched_AwaitsNetwork(tk, hit) ==
    [tk EXCEPT !.cached = hit, !.handleLive = TRUE, !.bg = "fetching",
               !.nfetch = tk.nfetch + 1, !.pc = "swr_await"]

\* after cache.match: fetch is called in any case; with a snapshot the
\* function returns at once and the fetch goes on in the background
staleWhileRevalidateMatched(tk, hit) ==
    IF hit # NoResp
    THEN [tk EXCEPT !.cached = hit, !.handleLive = TRUE, !.bg = "fetching",
                    !.nfetch = tk.nfetch + 1, !.result = hit, !.pc = "done"]
    ELSE [tk EXCEPT !.handleLive = TRUE, !.bg = "fetching",
                    !.nfetch = tk.nfetch + 1, !.pc = "swr_await"]

SwrMatch(t) ==
    /\ task[t].pc = "swr_match"
    /\ cacheExists' = Opened(task[t].cacheName)
    /\ task' = [task EXCEPT ![t] =
                  staleWhileRevalidateMatched(@, Match(task[t].cacheName,
                                                       task[t].req.path))]
    /\ UNCHANGED <<cacheContent, outbox, nextId, clearPending>>
    /\ UNCHANGED syncVars
    /\ UNCHANGED hostVars

\* the .then / .catch chain on fetch: a rejection becomes null
revalidateFetched(tk, o) ==
    IF o = ErrResp
    THEN [tk EXCEPT !.netState = "failed", !.handleLive = FALSE, !.bg = "null"]
    ELSE [tk EXCEPT !.netState = "ok", !.net = o, !.bg = "putting"]

SwrBgFetch(t, o) ==
    /\ task[t].bg = "fetching"
    /\ o \in FetchOutcomes(task[t].req.path)
    /\ task' = [task EXCEPT ![t] = revalidateFetched(@, o)]
    /\ UNCHANGED <<cacheExists, cacheContent, outbox, nextId, clearPending>>
    /\ UNCHANGED syncVars
    /\ UNCHANGED hostVars

\* await cache.put inside .then: a rejection becomes null as well. When the
\* function has already returned the snapshot nobody reads the promise's
\* value, and the slot forgets it.
revalidatePut(tk, ok) ==
    LET kept == IF tk.pc = "done" THEN NoResp ELSE tk.net
    IN  IF ok
        THEN [tk EXCEPT !.putState = "ok", !.handleLive = FALSE,
                        !.net = kept, !.bg = "resolved"]
        ELSE [tk EXCEPT !.putState = "failed", !.handleLive = FALSE,
                        !.net = kept, !.bg = "null"]

SwrBgPut(t, ok) ==
    /\ task[t].bg = "putting"
    /\ cacheContent' =
         IF ok
         THEN Stored(task[t].cacheName, task[t].handleLive,
                     task[t].req.path, task[t].net)
         ELSE cacheContent
    /\ task' = [task EXCEPT ![t] = revalidatePut(@, ok)]
    /\ UNCHANGED <<cacheExists, outbox, nextId, clearPending>>
    /\ UNCHANGED syncVars
    /\ UNCHANGED hostVars

\* await networkResponsePromise when there was no snapshot
staleWhileRevalidateAwaited(tk) ==
    IF tk.bg = "resolved"
    THEN [tk EXCEPT !.result = tk.net, !.pc = "done"]
    ELSE [tk EXCEPT !.pc = "fallback"]

SwrAwait(t) ==
    /\ task[t].pc = "swr_await"
    /\ task[t].bg \in {"resolved", "null"}
    /\ task' = [task EXCEPT ![t] = staleWhileRevalidateAwaited(@)]
    /\ UNCHANGED <<cacheExists, cacheContent, outbox, nextId, clearPending>>
    /\ UNCHANGED syncVars
    /\ UNCHANGED hostVars

---------------------------------------------------------------------------
(* the catch of handleGetRequest: getFallbackResponse *)

\* the catch block of handleGetRequest returns what getFallbackResponse returns
handleGetRequestCaught(tk, shell) ==
    [tk EXCEPT !.result = getFallbackResponse(tk.req, shell), !.pc = "done"]

Fallback(t) ==
    /\ task[t].pc = "fallback"
    /\ cacheExists' =
         IF AcceptIncludesHtml(task[t].req.accept)
         THEN Opened(STATIC_CACHE) ELSE cacheExists
    /\ task' = [task EXCEPT ![t] =
                  handleGetRequestCaught(@, Match(STATIC_CACHE, PRoot))]
    /\ UNCHANGED <<cacheContent, outbox, nextId, clearPending>>
    /\ UNCHANGED syncVars
    /\ UNCHANGED hostVars

\* caches.open or cache.match rejects inside a strategy (the storage backend
\* is unavailable): no strategy catches it, so it reaches the catch block of
\* handleGetRequest. In networkFirstStrategy the two calls are the ones of
\* its catch block.
storageReadFailed(tk) ==
    [tk EXCEPT !.handleLive = FALSE, !.pc = "fallback"]

StorageReadFailed(t) ==
    /\ task[t].pc \in {"cf_match", "nf_catch", "swr_match"}
    /\ task' = [task EXCEPT ![t] = storageReadFailed(@)]
    /\ UNCHANGED <<cacheExists, cacheContent, outbox, nextId, clearPending>>
    /\ UNCHANGED syncVars
    /\ UNCHANGED hostVars

\* getFallbackResponse when caches.open(STATIC_CACHE) or cache.match('/')
\* rejects: the two awaits of the HTML branch are in no try block, so the
\* promise of getFallbackResponse rejects, and with it the promise
\* handleGetRequest gave to respondWith
getFallbackResponseThrew(tk) ==
    [tk EXCEPT !.result = ErrResp, !.pc = "done"]

FallbackThrew(t) ==
    /\ task[t].pc = "fallback"
    /\ AcceptIncludesHtml(task[t].req.accept)
    /\ task' = [task EXCEPT ![t] = getFallbackResponseThrew(@)]
    /\ UNCHANGED <<cacheExists, cacheContent, outbox, nextId, clearPending>>
    /\ UNCHANGED syncVars
    /\ UNCHANGED hostVars

---------------------------------------------------------------------------
(* handlePostRequest and storeForBackgroundSync *)

IsApiPath(p) == StartsWith(p, PApiNs)

\* a write path that treats a non-2xx answer as a failure
handlePostFetched_ThrowsOnNon2xx(tk, o) ==
    IF o # ErrResp /\ o.status = 200
    THEN [tk EXCEPT !.netState = "ok", !.net = o, !.result = o, !.pc = "done"]
    ELSE IF IsApiPath(tk.req.path)
    THEN [tk EXCEPT !.netState = IF o = ErrResp THEN "failed" ELSE "ok",
                    !.net = IF o = ErrResp THEN NoResp ELSE o,
                    !.pc = "post_store"]
    ELSE [tk EXCEPT !.netState = IF o = ErrResp THEN "failed" ELSE "ok",
                    !.net = IF o = ErrResp THEN NoResp ELSE o,
                    !.result = ErrResp, !.pc = "done"]

\* a write path that queues and acknowledges a failed write to any path
handlePostFetched_AcksEveryPath(tk, o) ==
    IF o # ErrResp
    THEN [tk EXCEPT !.netState = "ok", !.net = o, !.result = o, !.pc = "done"]
    ELSE [tk EXCEPT !.netState = "failed", !.pc = "post_store"]

\* fetch(request) settled: the response as it is, or the catch block
handlePostFetched(tk, o) ==
    IF o # ErrResp
    THEN [tk EXCEPT !.netState = "ok", !.net = o, !.result = o, !.pc = "done"]
    ELSE IF IsApiPath(tk.req.path)
    THEN [tk EXCEPT !.netState = "failed", !.pc = "post_store"]
    ELSE [tk EXCEPT !.netState = "failed", !.result = ErrResp, !.pc = "done"]

PostFetch(t, o) ==
    /\ task[t].pc = "post_fetch"
    /\ o \in FetchOutcomes(task[t].req.path)
    /\ task' = [task EXCEPT ![t] = handlePostFetched(@, o)]
    /\ UNCHANGED <<cacheExists, cacheContent, outbox, nextId, clearPending>>
    /\ UNCHANGED syncVars
    /\ UNCHANGED hostVars

\* storeForBackgroundSync: the entry is added when request.text() and the
\* write to pending_requests both succeed; its try/catch swallows any failure
storeForBackgroundSync(q, r, id, ts, ok) ==
    IF BodyReadableAfterFetch(r) /\ ok
    THEN Append(q, requestData(r, id, ts))
    ELSE q

\* handlePostRequest after storeForBackgroundSync has returned
handlePostStored(tk, stored) ==
    [tk EXCEPT !.putState = IF stored THEN "ok" ELSE "failed",
               !.result = QueuedAck, !.pc = "done"]

PostStore(t, ok) ==
    /\ task[t].pc = "post_store"
    /\ ok => Len(outbox) < MaxOutbox
    /\ outbox' = storeForBackgroundSync(outbox, task[t].req, nextId, now, ok)
    /\ nextId' = IF outbox' # outbox THEN nextId + 1 ELSE nextId
    /\ task' = [task EXCEPT ![t] = handlePostStored(@, outbox' # outbox)]
    /\ UNCHANGED <<cacheExists, cacheContent, clearPending>>
    /\ UNCHANGED syncVars
    /\ UNCHANGED hostVars

\* a request the listener does not answer: the browser performs it
passedThrough(tk, o) ==
    [tk EXCEPT !.netState = IF o = ErrResp THEN "failed" ELSE "ok",
               !.net = IF o = ErrResp THEN NoResp ELSE o,
               !.result = o, !.pc = "done"]

PassFetch(t, o) ==
    /\ task[t].pc = "pass_fetch"
    /\ o \in FetchOutcomes(task[t].req.path)
    /\ task' = [task EXCEPT ![t] = passedThrough(@, o)]
    /\ UNCHANGED <<cacheExists, cacheContent, outbox, nextId, clearPending>>
    /\ UNCHANGED syncVars
    /\ UNCHANGED hostVars

---------------------------------------------------------------------------
(* message CLEAR_CACHE: clearAllCaches *)

\* the names caches.keys() returns: the partitions of this version that
\* exist, and those of other versions
ExistingCaches == {n \in CacheNames : cacheExists[n]} \cup oldCaches

\* caches.keys()
ClearKeys ==
    /\ clearPending = {}
    /\ ExistingCaches # {}
    /\ clearPending' = ExistingCaches
    /\ UNCHANGED <<cacheExists, cacheContent, task, outbox, nextId, oldCaches>>
    /\ UNCHANGED syncVars
    /\ UNCHANGED dataVars
    /\ UNCHANGED <<worker, audioJob>>

\* Promise.all(cacheNames.map(caches.delete)): the handles that handlers
\* still hold on a deleted partition are detached
ClearDelete ==
    /\ clearPending # {}
    /\ cacheExists' = [n \in CacheNames |->
                         IF n \in clearPending THEN FALSE ELSE cacheExists[n]]
    /\ cacheContent' = [n \in CacheNames |->
                          IF n \in clearPending THEN EmptyCache
                          ELSE cacheContent[n]]
    /\ task' = [t \in Tasks |->
                  IF task[t].cacheName \in clearPending
                  THEN [task[t] EXCEPT !.handleLive = FALSE]
                  ELSE task[t]]
    /\ oldCaches' = oldCaches \ clearPending
    /\ audioJob' = IF AUDIO_CACHE \in clearPending
                   THEN [audioJob EXCEPT !.handleLive = FALSE]
                   ELSE audioJob
    /\ clearPending' = {}
    /\ UNCHANGED <<outbox, nextId, worker>>
    /\ UNCHANGED syncVars
    /\ UNCHANGED dataVars

---------------------------------------------------------------------------
(* The Sync Coordinator: the sync and periodicsync listeners, the SYNC_NOW   *)
(* message, and syncPendingRequests                                          *)

TagPending == "sync-pending-requests"
TagMood == "sync-mood-data"
TagProgress == "sync-session-progress"
TagCrisis == "crisis-check"
TagReminder == "mood-reminder"

Tags == {TagPending, TagMood, TagProgress, TagCrisis, TagReminder}

\* the function the sync listener hands to waitUntil for a tag
syncListener(tag) ==
    IF tag = TagPending THEN "syncPendingRequests"
    ELSE IF tag = TagMood THEN "syncMoodData"
    ELSE IF tag = TagProgress THEN "syncSessionProgress"
    ELSE "none"

\* a periodicsync listener that also replays the Outbox
periodicsyncListener_ReplaysOutbox(tag) ==
    IF tag = TagCrisis THEN "checkCrisisSupport"
    ELSE IF tag = TagReminder THEN "sendMoodReminder"
    ELSE IF tag = TagPending THEN "syncPendingRequests"
    ELSE "none"

\* the function the periodicsync listener hands to waitUntil for a tag
periodicsyncListener(tag) ==
    IF tag = TagCrisis THEN "checkCrisisSupport"
    ELSE IF tag = TagReminder THEN "sendMoodReminder"
    ELSE "none"

Event(e, tag, h) == [event |-> e, tag |-> tag, handler |-> h]

RunFree(s) == sync[s].pc \in {"idle", "done"}

\* the calls in flight after a listener started handler h: a call of
\* syncPendingRequests begins in slot s
Started(s, h) ==
    IF h = "syncPendingRequests"
    THEN [sync EXCEPT ![s] = [IdleRun EXCEPT !.pc = "read"]]
    ELSE sync

BatchHandlers == {"syncMoodData", "syncSessionProgress"}

PeriodicHandlers == {"checkCrisisSupport", "sendMoodReminder"}

\* the one slot of a kind of job is free for handler h
JobFree(job, h, handlers) == h \in handlers => job.pc \in {"idle", "done"}

\* the job after a listener started handler h
StartedJob(job, idle, h, handlers) ==
    IF h \in handlers THEN [idle EXCEPT !.pc = "read", !.handler = h]
    ELSE job

\* the platform delivers a sync event for a tag: connectivity is there for a
\* registration, one that triggerSync made ("SYNC_NOW") or one that the page
\* made itself ("platform")
SyncEvent(s, tag) ==
    /\ RunFree(s)
    /\ JobFree(batch, syncListener(tag), BatchHandlers)
    /\ lastEvent' = Event(IF tag \in registered THEN "sync after SYNC_NOW"
                          ELSE "sync", tag, syncListener(tag))
    /\ sync' = Started(s, syncListener(tag))
    /\ batch' = StartedJob(batch, IdleBatch, syncListener(tag), BatchHandlers)
    /\ registered' = registered \ {tag}
    /\ UNCHANGED <<cacheExists, cacheContent, task, outbox, nextId,
                   clearPending, now, answered>>
    /\ UNCHANGED <<moodData, progressData, localStorage, periodic,
                   worker, oldCaches, audioJob>>

\* the platform delivers a periodicsync event for a tag
PeriodicSyncEvent(s, tag) ==
    /\ RunFree(s)
    /\ JobFree(periodic, periodicsyncListener(tag), PeriodicHandlers)
    /\ lastEvent' = Event("periodicsync", tag, periodicsyncListener(tag))
    /\ sync' = Started(s, periodicsyncListener(tag))
    /\ periodic' = StartedJob(periodic, IdlePeriodic,
                              periodicsyncListener(tag), PeriodicHandlers)
    /\ UNCHANGED <<cacheExists, cacheContent, task, outbox, nextId,
                   clearPending, now, registered, answered>>
    /\ UNCHANGED <<moodData, progressData, localStorage, batch,
                   worker, oldCaches, audioJob>>

\* triggerSync(tag): registration.sync.register(tag); a rejection (no
\* SyncManager, permission denied) is logged
triggerSync(reg, tag, ok) == IF ok THEN reg \cup {tag} ELSE reg

\* message {type: 'SYNC_NOW', tag}
MessageSyncNow(tag, ok) ==
    /\ lastEvent' = Event("message SYNC_NOW", tag, "triggerSync")
    /\ registered' = triggerSync(registered, tag, ok)
    /\ UNCHANGED <<cacheExists, cacheContent, task, outbox, nextId,
                   clearPending, now, sync, answered>>
    /\ UNCHANGED hostVars

\* store.getAll(): the records of pending_requests in key order
getAllFromStore(q) == q

\* a replay that reads the store newest first
syncPendingRequestsRead_NewestFirst(q, ok) ==
    LET all == getAllFromStore(q)
        rev == [j \in 1..Len(all) |-> all[Len(all) + 1 - j]]
    IN  IF ~ok \/ all = <<>>
        THEN [IdleRun EXCEPT !.pc = "done"]
        ELSE [IdleRun EXCEPT !.pc = "fetch", !.requests = rev, !.i = 1]

\* syncPendingRequests up to the first fetch: openIndexedDB and getAll (a
\* rejection of either is caught by the outer catch and ends the call), then
\* the request of the first entry is sent
syncPendingRequestsRead(q, ok) ==
    LET all == getAllFromStore(q)
    IN  IF ~ok \/ all = <<>>
        THEN [IdleRun EXCEPT !.pc = "done"]
        ELSE [IdleRun EXCEPT !.pc = "fetch", !.requests = all, !.i = 1]

SyncRead(s, ok) ==
    /\ sync[s].pc = "read"
    /\ sync' = [sync EXCEPT ![s] = syncPendingRequestsRead(outbox, ok)]
    /\ UNCHANGED <<cacheExists, cacheContent, task, outbox, nextId,
                   clearPending, now, registered, answered, lastEvent>>
    /\ UNCHANGED hostVars

\* the request the loop sends for entry e: fetch(e.url, {method, headers,
\* body}), the body being the string that was stored
replayRequest(e) == Req(e.method, e.url, e.headers, e.body)

\* response.ok: the fetch resolved with a status in 200..299
ResponseOk(k) == k # Rejected /\ k[2] >= 200 /\ k[2] <= 299

\* deleteStore.delete(id)
Deleted(q, id) == SelectSeq(q, LAMBDA e : e.id # id)

\* a replay that sends the entries and removes none
syncPendingRequestsSettled_KeepsEntry(q, e, k) == q

\* a replay that removes the entry whenever the server answered
syncPendingRequestsSettled_IgnoresStatus(q, e, k) ==
    IF k # Rejected THEN Deleted(q, e.id) ELSE q

\* the store after the replayed request of entry e settled as k: the entry is
\* deleted on response.ok; a rejection is caught inside the loop
syncPendingRequestsSettled(q, e, k) ==
    IF ResponseOk(k) THEN Deleted(q, e.id) ELSE q

\* a replay that gives up at the first request that fails
syncPendingRequestsNext_StopsAtFailure(rn, k) ==
    LET failedAt == IF rn.failedAt = 0 /\ ~ResponseOk(k) THEN rn.i
                    ELSE rn.failedAt
    IN  IF rn.i < Len(rn.requests) /\ ResponseOk(k)
        THEN [rn EXCEPT !.i = rn.i + 1, !.failedAt = failedAt]
        ELSE [rn EXCEPT !.pc = "done", !.failedAt = failedAt]

\* the loop after a request settled: the request of the next entry is sent,
\* whatever the outcome was
syncPendingRequestsNext(rn, k) ==
    LET failedAt == IF rn.failedAt = 0 /\ ~ResponseOk(k) THEN rn.i
                    ELSE rn.failedAt
    IN  IF rn.i < Len(rn.requests)
        THEN [rn EXCEPT !.i = rn.i + 1, !.failedAt = failedAt]
        ELSE [rn EXCEPT !.pc = "done", !.failedAt = failedAt]

SyncFetched(s, k) ==
    /\ sync[s].pc = "fetch"
    /\ outbox' = syncPendingRequestsSettled(outbox, sync[s].requests[sync[s].i], k)
    /\ answered' = IF ResponseOk(k)
                   THEN answered \cup {sync[s].requests[sync[s].i].id}
                   ELSE answered
    /\ sync' = [sync EXCEPT ![s] = syncPendingRequestsNext(@, k)]
    /\ UNCHANGED <<cacheExists, cacheContent, task, nextId, clearPending,
                   now, registered, lastEvent>>
    /\ UNCHANGED hostVars

\* time passes
Tick ==
    /\ now < MaxClock
    /\ now' = now + 1
    /\ UNCHANGED <<cacheExists, cacheContent, task, outbox, nextId,
                   clearPending, sync, registered, answered, lastEvent>>
    /\ UNCHANGED hostVars

---------------------------------------------------------------------------
(* The page: it writes the local collections the worker reads *)

\* the values of a mood record the page stores: one at the low-value
\* threshold, one above it
MoodValues == {2, 3}

\* the page puts the record {date: d, value: v} in mood_data (keyPath date:
\* a second record of the same date replaces the first)
PageStoresMood(d, v) ==
    /\ moodData[d] # v
    /\ moodData' = [moodData EXCEPT ![d] = v]
    /\ UNCHANGED <<cacheExists, cacheContent, task, outbox, nextId,
                   clearPending, progressData, localStorage, periodic, batch,
                   worker, oldCaches, audioJob>>
    /\ UNCHANGED syncVars

\* the page puts a record in session_progress (keyPath sessionId)
PageStoresProgress(sid) ==
    /\ sid \notin progressData
    /\ progressData' = progressData \cup {sid}
    /\ UNCHANGED <<cacheExists, cacheContent, task, outbox, nextId,
                   clearPending, moodData, localStorage, periodic, batch,
                   worker, oldCaches, audioJob>>
    /\ UNCHANGED syncVars

\* the page sets the key mood_<d> in its localStorage
PageSetsLocalMood(d) ==
    /\ d \notin localStorage
    /\ localStorage' = localStorage \cup {d}
    /\ UNCHANGED <<cacheExists, cacheContent, task, outbox, nextId,
                   clearPending, moodData, progressData, periodic, batch,
                   worker, oldCaches, audioJob>>
    /\ UNCHANGED syncVars

---------------------------------------------------------------------------
(* syncMoodData and syncSessionProgress *)

PSyncMood == <<"/", "api", "/", "sync-mood">>
PSyncProgress == <<"/", "api", "/", "sync-progress">>

\* getAll on mood_data: the records {date, value}
MoodRecords(md) == {<<d, md[d]>> : d \in {x \in Dates : md[x] # 0}}

\* JSON.stringify(records): a JSON text whose top-level value is the array
JsonArray(records) == [top |-> "array", field |-> "none", records |-> records]

\* a JSON text whose top-level value is an object with one array member
JsonObject(name, records) ==
    [top |-> "object", field |-> name, records |-> records]

\* the endpoint a batch handler posts to
BatchUrl(h) == IF h = "syncMoodData" THEN PSyncMood ELSE PSyncProgress

\* the records getAll gives a batch handler
BatchRecords(h, md, pd) == IF h = "syncMoodData" THEN MoodRecords(md) ELSE pd

\* a batch sync up to its fetch: a failure to open or read the store is
\* caught; an empty collection sends nothing; otherwise all the records go
\* out in one request
syncBatchRead(job, records, ok) ==
    IF ~ok \/ records = {} THEN [job EXCEPT !.pc = "done"]
    ELSE [job EXCEPT !.pc = "fetch", !.url = BatchUrl(job.handler),
                     !.sent = JsonArray(records), !.nreq = job.nreq + 1]

BatchRead(ok) ==
    /\ batch.pc = "read"
    /\ batch' = syncBatchRead(batch,
                    BatchRecords(batch.handler, moodData, progressData), ok)
    /\ UNCHANGED <<cacheExists, cacheContent, task, outbox, nextId,
                   clearPending, moodData, progressData, localStorage,
                   periodic, worker, oldCaches, audioJob>>
    /\ UNCHANGED syncVars

\* a batch sync that clears the collection once the request settled
syncBatchSettled_ClearsAlways(store, empty, k) == empty

\* the collection after the batch request settled as k: clearStore.clear()
\* on response.ok, nothing otherwise (a rejection is caught)
syncBatchSettled(store, empty, k) == IF ResponseOk(k) THEN empty ELSE store

BatchFetched(k) ==
    /\ batch.pc = "fetch"
    /\ batch' = [batch EXCEPT !.pc = "done", !.answer = k]
    /\ moodData' = IF batch.handler = "syncMoodData"
                   THEN syncBatchSettled(moodData, NoMoodData, k)
                   ELSE moodData
    /\ progressData' = IF batch.handler = "syncSessionProgress"
                       THEN syncBatchSettled(progressData, {}, k)
                       ELSE progressData
    /\ UNCHANGED <<cacheExists, cacheContent, task, outbox, nextId,
                   clearPending, localStorage, periodic, worker, oldCaches,
                   audioJob>>
    /\ UNCHANGED syncVars

\* the backend: POST /api/sync-mood answers 200 when the body is an object
\* whose member moodEntries is an array, and 400 otherwise; no route matches
\* /api/sync-progress, which the 404 handler answers
apiServer(url, body) ==
    IF url = PSyncMood
    THEN IF body.top = "object" /\ body.field = "moodEntries"
         THEN <<0, 200>> ELSE <<0, 400>>
    ELSE <<0, 404>>

---------------------------------------------------------------------------
(* checkCrisisSupport and sendMoodReminder *)

\* the look-back window of checkCrisisSupport, in days
CrisisWindowDays == 3
\* a mood value at or below this one is a low mood
LowMoodValue == 2
\* the low moods that make checkCrisisSupport notify
CrisisCount == 3

\* new Date(date) for a date d: its midnight (UTC)
DateInstant(d) == d * TicksPerDay

\* new Date().toISOString().split('T')[0]: the date of instant t
Today(t) == t \div TicksPerDay

\* new Date(Date.now() - 3 * 24 * 60 * 60 * 1000)
threeDaysAgo(t) == t - CrisisWindowDays * TicksPerDay

\* the dates of the records the filter keeps
recentLowMoods(md, t) ==
    {d \in Dates : /\ md[d] # 0
                   /\ DateInstant(d) >= threeDaysAgo(t)
                   /\ md[d] <= LowMoodValue}

\* checkCrisisSupport: what it shows; a failure to read mood_data is caught
checkCrisisSupport(job, md, t, ok) ==
    IF ~ok THEN [job EXCEPT !.pc = "done", !.failed = TRUE]
    ELSE IF Cardinality(recentLowMoods(md, t)) >= CrisisCount
         THEN [job EXCEPT !.pc = "done",
                          !.shown = Append(job.shown, "crisis-support")]
         ELSE [job EXCEPT !.pc = "done"]

\* sendMoodReminder: what it shows; where the global localStorage is not
\* defined (it is not part of the service worker scope) the ReferenceError
\* is caught
sendMoodReminder(job, ls, t, defined) ==
    IF ~defined THEN [job EXCEPT !.pc = "done", !.failed = TRUE]
    ELSE IF Today(t) \notin ls
         THEN [job EXCEPT !.pc = "done",
                          !.shown = Append(job.shown, "mood-reminder")]
         ELSE [job EXCEPT !.pc = "done"]

\* a periodic check that asks the server first
periodicsyncRun_FetchesFirst(job, md, ls, t, ok, defined, online) ==
    IF ~online
    THEN [job EXCEPT !.pc = "done", !.failed = TRUE, !.nreq = job.nreq + 1,
                     !.online = online]
    ELSE IF job.handler = "checkCrisisSupport"
         THEN checkCrisisSupport([job EXCEPT !.nreq = job.nreq + 1,
                                             !.online = online], md, t, ok)
         ELSE sendMoodReminder([job EXCEPT !.nreq = job.nreq + 1,
                                           !.online = online], ls, t, defined)

\* the handler the periodicsync listener started, run to its end
periodicsyncRun(job, md, ls, t, ok, defined, online) ==
    IF job.handler = "checkCrisisSupport"
    THEN checkCrisisSupport([job EXCEPT !.online = online], md, t, ok)
    ELSE sendMoodReminder([job EXCEPT !.online = online], ls, t, defined)

PeriodicRun(ok, defined, online) ==
    /\ periodic.pc = "read"
    /\ periodic' = periodicsyncRun(periodic, moodData, localStorage, now,
                                   ok, defined, online)
    /\ UNCHANGED <<cacheExists, cacheContent, task, outbox, nextId,
                   clearPending, moodData, progressData, localStorage,
                   batch, worker, oldCaches, audioJob>>
    /\ UNCHANGED syncVars

---------------------------------------------------------------------------
(* The message listener: SKIP_WAITING, CACHE_AUDIO, CLEAR_CACHE, SYNC_NOW *)

MessageTypes == {"SKIP_WAITING", "CACHE_AUDIO", "CLEAR_CACHE", "SYNC_NOW"}

\* types the switch has no case for; "" stands for a message without data
\* or without a type (event.data && event.data.type is falsy)
UnknownTypes == {"PING", ""}

\* a listener whose default case clears the caches
messageListener_UnknownClears(type) ==
    CASE type = "SKIP_WAITING" -> "skipWaiting"
      [] type = "CACHE_AUDIO" -> "cacheAudioFile"
      [] type = "SYNC_NOW" -> "triggerSync"
      [] OTHER -> "clearAllCaches"

\* the function the message listener calls for a message of a type
messageListener(type) ==
    CASE type = "SKIP_WAITING" -> "skipWaiting"
      [] type = "CACHE_AUDIO" -> "cacheAudioFile"
      [] type = "CLEAR_CACHE" -> "clearAllCaches"
      [] type = "SYNC_NOW" -> "triggerSync"
      [] OTHER -> "none"

\* a client posts {type, url, tag} to the worker; ok: sync.register resolves.
\* The listener returns at once: cacheAudioFile and clearAllCaches go on in
\* steps of their own.
MessageEvent(type, url, tag, ok) ==
    LET h == messageListener(type)
    IN  /\ worker.state # "redundant"
        /\ h = "cacheAudioFile" => audioJob.pc \in {"idle", "done"}
        /\ h = "clearAllCaches" => clearPending = {}
        /\ lastEvent' = Event("message " \o type,
                              IF h = "triggerSync" THEN tag ELSE "none", h)
        /\ worker' = IF h = "skipWaiting"
                     THEN [worker EXCEPT !.skipWaiting = @ \cup {"message"}]
                     ELSE worker
        /\ audioJob' = IF h = "cacheAudioFile"
                       THEN [IdleAudio EXCEPT !.pc = "open", !.url = url]
                       ELSE audioJob
        /\ clearPending' = IF h = "clearAllCaches" THEN ExistingCaches
                           ELSE clearPending
        /\ registered' = IF h = "triggerSync"
                         THEN triggerSync(registered, tag, ok)
                         ELSE registered
        /\ UNCHANGED <<cacheExists, cacheContent, task, outbox, nextId, now,
                       sync, answered, moodData, progressData, localStorage,
                       periodic, batch, oldCaches>>

\* cacheAudioFile: caches.open(AUDIO_CACHE); a rejection is caught
AudioOpen(ok) ==
    /\ audioJob.pc = "open"
    /\ cacheExists' = IF ok THEN [cacheExists EXCEPT ![AUDIO_CACHE] = TRUE]
                      ELSE cacheExists
    /\ audioJob' = IF ok THEN [audioJob EXCEPT !.pc = "add", !.handleLive = TRUE]
                   ELSE [audioJob EXCEPT !.pc = "done"]
    /\ UNCHANGED <<cacheContent, task, outbox, nextId, clearPending, worker,
                   oldCaches>>
    /\ UNCHANGED syncVars
    /\ UNCHANGED dataVars

\* cacheAudioFile: cache.add(url) fetches the url and stores the answer when
\* it is 2xx; it rejects otherwise, and the rejection is caught
AudioAdded(k, putOk) ==
    /\ audioJob.pc = "add"
    /\ cacheContent' =
           IF ResponseOk(k) /\ putOk /\ audioJob.handleLive
           THEN [cacheContent EXCEPT ![AUDIO_CACHE][audioJob.url] =
                                         Outcome(audioJob.url, k)]
           ELSE cacheContent
    /\ audioJob' = [audioJob EXCEPT !.pc = "done"]
    /\ UNCHANGED <<cacheExists, task, outbox, nextId, clearPending, worker,
                   oldCaches>>
    /\ UNCHANGED syncVars
    /\ UNCHANGED dataVars

---------------------------------------------------------------------------
(* The install and activate listeners *)

\* partitions of other versions of the worker
StaleNames == {"mindchat-static-v0", "mindchat-dynamic-v0"}

\* cache.addAll(urls) resolved: every url is stored with its 2xx answer
AddedAll(content, urls) ==
    [u \in AllPaths |-> IF u \in urls THEN NetResp(u, 1, 200) ELSE content[u]]

\* install, first promise: caches.open(STATIC_CACHE), cache.addAll(
\* STATIC_ASSETS); addAll stores all the assets or, when one request fails,
\* none. The promise goes on after the other one has rejected.
InstallStatic(ok) ==
    /\ worker.state \in {"installing", "redundant"}
    /\ worker.static = "none"
    /\ cacheExists' = [cacheExists EXCEPT ![STATIC_CACHE] = TRUE]
    /\ cacheContent' =
           IF ok THEN [cacheContent EXCEPT ![STATIC_CACHE] =
                                               AddedAll(@, STATIC_ASSETS)]
           ELSE cacheContent
    /\ worker' = [worker EXCEPT !.static = IF ok THEN "done" ELSE "failed"]
    /\ UNCHANGED <<task, outbox, nextId, clearPending, oldCaches, audioJob>>
    /\ UNCHANGED syncVars
    /\ UNCHANGED dataVars

\* install, second promise: caches.open(AUDIO_CACHE), cache.add of the one
\* essential audio file
InstallAudio(ok) ==
    /\ worker.state \in {"installing", "redundant"}
    /\ worker.audio = "none"
    /\ cacheExists' = [cacheExists EXCEPT ![AUDIO_CACHE] = TRUE]
    /\ cacheContent' =
           IF ok THEN [cacheContent EXCEPT ![AUDIO_CACHE] =
                                               AddedAll(@, {PAudioBreathing})]
           ELSE cacheContent
    /\ worker' = [worker EXCEPT !.audio = IF ok THEN "done" ELSE "failed"]
    /\ UNCHANGED <<task, outbox, nextId, clearPending, oldCaches, audioJob>>
    /\ UNCHANGED syncVars
    /\ UNCHANGED dataVars

\* an install step that goes on when the audio file could not be cached
installSettled_AudioOptional(w) ==
    IF w.static = "done" /\ w.audio # "none"
    THEN [w EXCEPT !.state = "installed",
                   !.skipWaiting = w.skipWaiting \cup {"install"}]
    ELSE [w EXCEPT !.state = "redundant"]

\* the promise given to waitUntil settled: Promise.all resolved and
\* skipWaiting was called, or it rejected and the worker is discarded
installSettled(w) ==
    IF w.static = "done" /\ w.audio = "done"
    THEN [w EXCEPT !.state = "installed",
                   !.skipWaiting = w.skipWaiting \cup {"install"}]
    ELSE [w EXCEPT !.state = "redundant"]

\* Promise.all settles when both promises resolved or one rejected
InstallSettled ==
    /\ worker.state = "installing"
    /\ \/ worker.static = "done" /\ worker.audio = "done"
       \/ "failed" \in {worker.static, worker.audio}
    /\ worker' = installSettled(worker)
    /\ UNCHANGED <<cacheExists, cacheContent, task, outbox, nextId,
                   clearPending, oldCaches, audioJob>>
    /\ UNCHANGED syncVars
    /\ UNCHANGED dataVars

\* the platform activates the waiting worker and dispatches activate
Activate ==
    /\ worker.state = "installed"
    /\ worker' = [worker EXCEPT !.state = "activating"]
    /\ UNCHANGED <<cacheExists, cacheContent, task, outbox, nextId,
                   clearPending, oldCaches, audioJob>>
    /\ UNCHANGED syncVars
    /\ UNCHANGED dataVars

\* an activate handler that adopts the clients before it deletes anything
activateKeysRead_ClaimsFirst(w, names) ==
    [w EXCEPT !.pc = "delete", !.keys = names, !.claimed = TRUE]

\* the activate handler once caches.keys() resolved with names: the
\* deletions come next, clients.claim() after them
activateKeysRead(w, names) == [w EXCEPT !.pc = "delete", !.keys = names]

\* activate: caches.keys()
ActivateKeys ==
    /\ worker.state = "activating"
    /\ worker.pc = "none"
    /\ worker' = activateKeysRead(worker, ExistingCaches)
    /\ UNCHANGED <<cacheExists, cacheContent, task, outbox, nextId,
                   clearPending, oldCaches, audioJob>>
    /\ UNCHANGED syncVars
    /\ UNCHANGED dataVars

\* an activation that keeps the static partition only
activateDeletes_AllButStatic(keys) == {n \in keys : n # STATIC_CACHE}

\* an activation that spares the dynamic partition of the older version
activateDeletes_KeepsOldDynamic(keys) ==
    {n \in keys : n \notin CacheNames /\ n # "mindchat-dynamic-v0"}

\* the names the activate handler deletes, of those caches.keys() gave it
activateDeletes(keys) ==
    {n \in keys : n # STATIC_CACHE /\ n # DYNAMIC_CACHE /\ n # AUDIO_CACHE}

\* activate: Promise.all(cacheNames.map(... caches.delete(cacheName)))
ActivateDelete ==
    /\ worker.pc = "delete"
    /\ cacheExists' = [n \in CacheNames |->
                         IF n \in activateDeletes(worker.keys) THEN FALSE
                         ELSE cacheExists[n]]
    /\ cacheContent' = [n \in CacheNames |->
                          IF n \in activateDeletes(worker.keys)
                          THEN EmptyCache ELSE cacheContent[n]]
    /\ oldCaches' = oldCaches \ activateDeletes(worker.keys)
    /\ worker' = [worker EXCEPT !.pc = "claim"]
    /\ UNCHANGED <<task, outbox, nextId, clearPending, audioJob>>
    /\ UNCHANGED syncVars
    /\ UNCHANGED dataVars

\* activate: self.clients.claim(); the promise given to waitUntil resolves
ActivateClaim ==
    /\ worker.pc = "claim"
    /\ worker' = [worker EXCEPT !.pc = "done", !.claimed = TRUE,
                                !.state = "activated"]
    /\ UNCHANGED <<cacheExists, cacheContent, task, outbox, nextId,
                   clearPending, oldCaches, audioJob>>
    /\ UNCHANGED syncVars
    /\ UNCHANGED dataVars

---------------------------------------------------------------------------
(* The push listener *)

\* a push message arrives, with a payload or without: the listener shows the
\* notification the payload describes, or does nothing
PushEvent(hasData) ==
    /\ lastEvent' = Event("push", "none",
                          IF hasData THEN "showNotification" ELSE "none")
    /\ UNCHANGED <<cacheExists, cacheContent, task, outbox, nextId,
                   clearPending, now, sync, registered, answered>>
    /\ UNCHANGED hostVars

---------------------------------------------------------------------------
(* Requests and specifications *)

\* the steps of slot t in each handler, with the fetches settling in one of the kinds K
CfStep(t, K) ==
    \/ CfMatch(t)
    \/ \E k \in K : CfFetch(t, Outcome(task[t].req.path, k))
    \/ \E ok \in BOOLEAN : CfPut(t, ok)

NfStep(t, K) ==
    \/ \E k \in K : NfFetch(t, Outcome(task[t].req.path, k))
    \/ \E ok \in BOOLEAN : NfPut(t, ok)
    \/ NfCatch(t)

SwrStep(t, K) ==
    \/ SwrMatch(t)
    \/ \E k \in K : SwrBgFetch(t, Outcome(task[t].req.path, k))
    \/ \E ok \in BOOLEAN : SwrBgPut(t, ok)
    \/ SwrAwait(t)

WriteStep(t, K) ==
    \/ \E k \in K : PostFetch(t, Outcome(task[t].req.path, k))
    \/ \E ok \in BOOLEAN : PostStore(t, ok)
    \/ \E k \in K : PassFetch(t, Outcome(task[t].req.path, k))

ClearStep ==
    \/ ClearKeys
    \/ ClearDelete

\* Spec: one GET at a time, over every kind of path and Accept header
Requests ==
    { Req("GET", PRoot, AcceptNav, NullBody),
      Req("GET", PApiMood, AcceptJson, NullBody),
      Req("GET", PApiMood, AcceptNav, NullBody),
      Req("GET", PApiMood, AcceptImage, NullBody),
      Req("GET", PApiIndex, AcceptJson, NullBody),
      Req("GET", PApiAudio, AcceptJson, NullBody),
      Req("GET", PAudioBreathing, AcceptAny, NullBody),
      Req("GET", PAudioIndex, AcceptHtml, NullBody),
      Req("GET", PStyles, AcceptNone, NullBody),
      Req("GET", PStyles, AcceptHtml, NullBody),
      Req("GET", PStyles, AcceptImage, NullBody) }

Next ==
    \/ \E r \in Requests : FetchEvent(1, r)
    \/ CfStep(1, SeqKinds)
    \/ NfStep(1, SeqKinds)
    \/ SwrStep(1, SeqKinds)
    \/ Fallback(1)
    \/ ClearStep

Spec == Init /\ [][Next]_vars

\* SpecWrite: interleaved non-GET requests
WriteRequests ==
    { Req("POST", PApiMood, AcceptJson, Payload),
      Req("POST", PApiMood, AcceptJson, NullBody),
      Req("POST", PContact, AcceptHtml, Payload),
      Req("PUT", PApiMood, AcceptJson, Payload),
      Req("DELETE", PApiMood, AcceptJson, NullBody),
      Req("PATCH", PApiMood, AcceptJson, Payload) }

NextWrite ==
    \/ \E t \in Tasks : \E r \in WriteRequests : FetchEvent(t, r)
    \/ \E t \in Tasks : WriteStep(t, FetchKinds)

SpecWrite == Init /\ [][NextWrite]_vars

\* SpecCf: interleaved cache-first handlers on the application shell
CfRequests == { Req("GET", PRoot, AcceptNav, NullBody) }

NextCf ==
    \/ \E t \in Tasks : \E r \in CfRequests : FetchEvent(t, r)
    \/ \E t \in Tasks : CfStep(t, FetchKinds)
    \/ \E t \in Tasks : Fallback(t)
    \/ ClearStep

SpecCf == Init /\ [][NextCf]_vars

\* SpecNf: interleaved network-first handlers on one API path
NfRequests == { Req("GET", PApiMood, AcceptJson, NullBody) }

NextNf ==
    \/ \E t \in Tasks : \E r \in NfRequests : FetchEvent(t, r)
    \/ \E t \in Tasks : NfStep(t, FetchKinds)
    \/ \E t \in Tasks : Fallback(t)
    \/ ClearStep

SpecNf == Init /\ [][NextNf]_vars

\* SpecSwr: interleaved stale-while-revalidate handlers on one path
SwrRequests == { Req("GET", PStyles, AcceptAny, NullBody) }

NextSwr ==
    \/ \E t \in Tasks : \E r \in SwrRequests : FetchEvent(t, r)
    \/ \E t \in Tasks : SwrStep(t, FetchKinds)
    \/ \E t \in Tasks : Fallback(t)
    \/ ClearStep

SpecSwr == Init /\ [][NextSwr]_vars

\* SpecStorage: one GET at a time with a storage backend whose reads may
\* reject as well as its writes. Every await settles: a handler that can take
\* a step eventually takes one.
GetStep(t) ==
    \/ CfStep(t, SeqKinds)
    \/ NfStep(t, SeqKinds)
    \/ SwrStep(t, SeqKinds)
    \/ Fallback(t)
    \/ StorageReadFailed(t)
    \/ FallbackThrew(t)

NextStorage ==
    \/ \E r \in Requests : FetchEvent(1, r)
    \/ GetStep(1)
    \/ ClearStep

SpecStorage == Init /\ [][NextStorage]_vars /\ WF_vars(GetStep(1))

\* SpecOutbox: writes to API and other paths, one at a time, and calls of
\* syncPendingRequests, one at a time, while writes go on arriving
OutboxRequests ==
    { Req("POST", PApiMood, AcceptJson, NullBody),
      Req("POST", PApiMood, AcceptJson, Payload),
      Req("POST", PContact, AcceptHtml, Payload) }

\* how a replayed request can settle
ReplayKinds == {<<1, 200>>, ServerError, Rejected}

NextOutbox ==
    \/ /\ nextId <= MaxEnqueued
       /\ \E r \in OutboxRequests : FetchEvent(1, r)
    \/ \E k \in ReplayKinds : PostFetch(1, Outcome(task[1].req.path, k))
    \/ \E ok \in BOOLEAN : PostStore(1, ok)
    \/ Tick
    \/ SyncEvent(1, TagPending)
    \/ \E ok \in BOOLEAN : SyncRead(1, ok)
    \/ \E k \in ReplayKinds : SyncFetched(1, k)

SpecOutbox == Init /\ [][NextOutbox]_vars

\* SpecTrigger: the events that reach the Sync Coordinator, with every tag
NextTrigger ==
    \/ \E tag \in Tags : \E ok \in BOOLEAN : MessageSyncNow(tag, ok)
    \/ \E s \in Runs : \E tag \in Tags : SyncEvent(s, tag)
    \/ \E s \in Runs : \E tag \in Tags : PeriodicSyncEvent(s, tag)
    \/ \E s \in Runs : \E ok \in BOOLEAN : SyncRead(s, ok)

SpecTrigger == Init /\ [][NextTrigger]_vars

\* how a batch request can settle
BatchKinds == {<<0, 200>>, <<0, 400>>, ServerError, Rejected}

\* SpecBatch: the two batch sync channels, the page writing records, any
\* answer to the batch request
NextBatch ==
    \/ \E d \in Dates : \E v \in MoodValues : PageStoresMood(d, v)
    \/ \E sid \in Sessions : PageStoresProgress(sid)
    \/ \E tag \in {TagMood, TagProgress} : SyncEvent(1, tag)
    \/ \E ok \in BOOLEAN : BatchRead(ok)
    \/ \E k \in BatchKinds : BatchFetched(k)

SpecBatch == Init /\ [][NextBatch]_vars

\* SpecServer: the same, the batch request being answered by the backend of
\* this repository, or not reaching it
NextServer ==
    \/ \E d \in Dates : \E v \in MoodValues : PageStoresMood(d, v)
    \/ \E sid \in Sessions : PageStoresProgress(sid)
    \/ \E tag \in {TagMood, TagProgress} : SyncEvent(1, tag)
    \/ \E ok \in BOOLEAN : BatchRead(ok)
    \/ \E k \in {apiServer(batch.url, batch.sent), Rejected} : BatchFetched(k)

SpecServer == Init /\ [][NextServer]_vars

\* SpecPeriodic: the periodic checks on day LastDay, at midnight or later in
\* the day, over the records the page has stored
InitPeriodic ==
    \E h \in 0..(TicksPerDay - 1) :
        InitAt(LastDay * TicksPerDay + h, {}, Worker("activated"))

NextPeriodic ==
    \/ \E d \in Dates : \E v \in MoodValues : PageStoresMood(d, v)
    \/ \E d \in {LastDay - 1, LastDay} : PageSetsLocalMood(d)
    \/ \E tag \in {TagCrisis, TagReminder} : PeriodicSyncEvent(1, tag)
    \/ \E ok, defined, online \in BOOLEAN : PeriodicRun(ok, defined, online)

SpecPeriodic == InitPeriodic /\ [][NextPeriodic]_vars

\* SpecControl: the messages of the clients of the active worker, with
\* navigations, and a write that finds the network down while the Outbox is
\* empty
ControlRequests ==
    { Req("GET", PRoot, AcceptNav, NullBody),
      Req("POST", PApiMood, AcceptJson, NullBody) }

NextControl ==
    \/ \E type \in MessageTypes \cup UnknownTypes : \E ok \in BOOLEAN :
          MessageEvent(type, PAudioBreathing, TagPending, ok)
    \/ ClearDelete
    \/ \E ok \in BOOLEAN : AudioOpen(ok)
    \/ \E k \in SeqKinds : \E ok \in BOOLEAN : AudioAdded(k, ok)
    \/ \E r \in ControlRequests :
          /\ r.method = "POST" => outbox = <<>>
          /\ FetchEvent(1, r)
    \/ CfStep(1, SeqKinds)
    \/ Fallback(1)
    \/ PostFetch(1, Outcome(task[1].req.path, Rejected))
    \/ \E ok \in BOOLEAN : PostStore(1, ok)

SpecControl == Init /\ [][NextControl]_vars

\* SpecHost: a worker instance from its install event on, with partitions of
\* an older version around, and the messages of its clients; once it is
\* active, navigations
InitHost ==
    \E old \in SUBSET StaleNames : InitAt(0, old, Worker("installing"))

NextHost ==
    \/ \E ok \in BOOLEAN : InstallStatic(ok)
    \/ \E ok \in BOOLEAN : InstallAudio(ok)
    \/ InstallSettled
    \/ Activate
    \/ ActivateKeys
    \/ ActivateDelete
    \/ ActivateClaim
    \/ \E type \in MessageTypes \cup UnknownTypes : \E ok \in BOOLEAN :
          MessageEvent(type, PAudioBreathing, TagPending, ok)
    \/ ClearDelete
    \/ /\ worker.state = "activated"
       /\ FetchEvent(1, Req("GET", PRoot, AcceptNav, NullBody))
    \/ CfStep(1, SeqKinds)
    \/ Fallback(1)

SpecHost == InitHost /\ [][NextHost]_vars

\* SpecEvents: every kind of event the worker listens to: one GET per
\* strategy at a time, the clear-all command, a sync that starts a replay, a
\* periodic check, a push message
EventRequests ==
    { Req("GET", PRoot, AcceptNav, NullBody),
      Req("GET", PApiMood, AcceptJson, NullBody),
      Req("GET", PStyles, AcceptNone, NullBody) }

NextEvents ==
    \/ \E r \in EventRequests : FetchEvent(1, r)
    \/ CfStep(1, SeqKinds)
    \/ NfStep(1, SeqKinds)
    \/ SwrStep(1, SeqKinds)
    \/ Fallback(1)
    \/ MessageEvent("CLEAR_CACHE", PAudioBreathing, TagPending, TRUE)
    \/ ClearDelete
    \/ SyncEvent(1, TagPending)
    \/ SyncRead(1, TRUE)
    \/ PeriodicSyncEvent(1, TagCrisis)
    \/ PeriodicRun(TRUE, TRUE, TRUE)
    \/ PushEvent(TRUE)

SpecEvents == Init /\ [][NextEvents]_vars

\* SpecOverlap: body-less API writes that find the network down, each sent
\* while the Outbox is empty, and calls of syncPendingRequests that overlap:
\* a sync event is delivered while an earlier call still awaits a fetch
NextOverlap ==
    \/ /\ nextId <= MaxEnqueued /\ outbox = <<>>
       /\ FetchEvent(1, Req("POST", PApiMood, AcceptJson, NullBody))
    \/ PostFetch(1, Outcome(task[1].req.path, Rejected))
    \/ \E ok \in BOOLEAN : PostStore(1, ok)
    \/ \E s \in Runs : SyncEvent(s, TagPending)
    \/ \E s \in Runs : \E ok \in BOOLEAN : SyncRead(s, ok)
    \/ \E s \in Runs : \E k \in ReplayKinds : SyncFetched(s, k)

SpecOverlap == Init /\ [][NextOverlap]_vars

\* SpecDrain: a bounded number of body-less API writes that find the network
\* down, and calls of syncPendingRequests one after another. Sync events
\* keep being delivered, the store can be read again and again, and every
\* replayed request settles.
NextDrain ==
    \/ /\ nextId <= MaxEnqueued
       /\ FetchEvent(1, Req("POST", PApiMood, AcceptJson, NullBody))
    \/ PostFetch(1, Outcome(task[1].req.path, Rejected))
    \/ \E ok \in BOOLEAN : PostStore(1, ok)
    \/ SyncEvent(1, TagPending)
    \/ \E ok \in BOOLEAN : SyncRead(1, ok)
    \/ \E k \in ReplayKinds : SyncFetched(1, k)

SpecDrain ==
    /\ Init /\ [][NextDrain]_vars
    /\ WF_vars(SyncEvent(1, TagPending))
    /\ SF_vars(SyncRead(1, TRUE))
    /\ WF_vars(\E k \in ReplayKinds : SyncFetched(1, k))

---------------------------------------------------------------------------
(* Properties *)

\* slot t took a step of its own handler (ClearDelete and the other slots
\* leave pc and bg alone)
Stepped(t) == task'[t].pc # task[t].pc \/ task'[t].bg # task[t].bg

IsGet(t) == task[t].req.method = "GET"

Done(t) == task[t].pc = "done"

StrategyPcs(s) ==
    IF s = "cacheFirst" THEN {"cf_match", "cf_fetch", "cf_put", "fallback", "done"}
    ELSE IF s = "networkFirst" THEN {"nf_fetch", "nf_put", "nf_catch", "fallback", "done"}
    ELSE {"swr_match", "swr_await", "fallback", "done"}

\* C1: every GET is handled by exactly one strategy, chosen by precedence:
\* static-asset path -> cache-first on static; else audio namespace ->
\* cache-first on audio; else API namespace -> network-first on dynamic;
\* otherwise stale-while-revalidate on dynamic.
C1_ClassifierPrecedence ==
    \A t \in Tasks : IsGet(t) =>
        LET p == task[t].req.path
            static == \E a \in STATIC_ASSETS : EndsWith(p, a)
            audio == Includes(p, <<"/", "audio", "/">>)
            api == StartsWith(p, <<"/", "api", "/">>)
            chosen == <<task[t].strategy, task[t].cacheName>>
        IN  /\ static => chosen = <<"cacheFirst", STATIC_CACHE>>
            /\ ~static /\ audio => chosen = <<"cacheFirst", AUDIO_CACHE>>
            /\ ~static /\ ~audio /\ api => chosen = <<"networkFirst", DYNAMIC_CACHE>>
            /\ ~static /\ ~audio /\ ~api =>
                   chosen = <<"staleWhileRevalidate", DYNAMIC_CACHE>>
            /\ task[t].pc \in StrategyPcs(task[t].strategy)
            /\ (task[t].bg # "none") => task[t].strategy = "staleWhileRevalidate"

\* C1 witness: a path under both the API and the audio namespace was served
\* cache-first from the audio partition
C1_Witness ==
    /\ Done(1)
    /\ task[1].req.path = PApiAudio
    /\ task[1].strategy = "cacheFirst"
    /\ task[1].cacheName = AUDIO_CACHE
    /\ task[1].result = NetResp(PApiAudio, 1, 200)

InOutbox(r) ==
    \E i \in 1..Len(outbox) :
        /\ outbox[i].url = r.path
        /\ outbox[i].method = r.method
        /\ outbox[i].body = (IF r.body = NullBody THEN "" ELSE r.body)

\* C2 (as claimed): every non-GET request, whatever its method, goes to the
\* network first and, when that fails for an API path, is queued in the
\* Outbox and acknowledged synthetically.
C2_NonGetQueuedAndAcked ==
    \A t \in Tasks :
        (/\ task[t].req.method \in {"POST", "PUT", "PATCH", "DELETE"}
         /\ Done(t)) =>
            /\ task[t].nfetch = 1
            /\ (task[t].netState = "failed" /\ IsApiPath(task[t].req.path)) =>
                   /\ task[t].result = QueuedAck
                   /\ InOutbox(task[t].req)

\* C3: once a fingerprint is stored in the static or audio partition it stays
\* stored until the partition is deleted, and a cache-first call that finds
\* it returns the stored snapshot without any network request.
C3_CacheFirstInvariant ==
    [][\A n \in {STATIC_CACHE, AUDIO_CACHE} : \A u \in AllPaths :
          cacheContent[n][u] # NoResp =>
              /\ cacheExists'[n] => cacheContent'[n][u] # NoResp
              /\ \A t \in Tasks :
                    (/\ task[t].pc = "cf_match"
                     /\ task[t].cacheName = n
                     /\ task[t].req.path = u
                     /\ Stepped(t)) =>
                        /\ task'[t].pc = "done"
                        /\ task'[t].result = cacheContent[n][u]
                        /\ task'[t].nfetch = 0
                        /\ task'[t].netState = "none"]_vars

\* C3 witness: a snapshot fetched and stored by one call has been served to a
\* later call that made no network request
C3_Witness ==
    /\ Done(1) /\ Done(2)
    /\ task[1].req.path = PRoot /\ task[2].req.path = PRoot
    /\ task[1].nfetch = 1 /\ task[1].putState = "ok"
    /\ task[2].nfetch = 0
    /\ task[2].cached = task[1].net
    /\ task[2].result = task[1].net

\* C4 (as claimed): a cache-first call makes no network request on a hit and
\* returns the snapshot; on a miss it makes exactly one, and the network
\* response is stored and returned.
C4_CacheFirstOneFetch ==
    \A t \in Tasks :
        (task[t].strategy = "cacheFirst" /\ Done(t)) =>
            /\ task[t].cached # NoResp =>
                   task[t].nfetch = 0 /\ task[t].result = task[t].cached
            /\ task[t].cached = NoResp =>
                   /\ task[t].nfetch = 1
                   /\ task[t].netState = "ok" =>
                          task[t].putState = "ok" /\ task[t].result = task[t].net

\* C5 (as claimed): network-first returns the network response (and stores
\* it) when the fetch succeeds, and the prior snapshot when the fetch fails.
C5_NetworkFirst ==
    \A t \in Tasks :
        (task[t].strategy = "networkFirst" /\ Done(t)) =>
            /\ task[t].netState = "ok" =>
                   task[t].putState = "ok" /\ task[t].result = task[t].net
            /\ (task[t].netState = "failed" /\ task[t].cached # NoResp) =>
                   task[t].result = task[t].cached

\* network-first ended in the fallback generator after a failed fetch
NfFailedNoSnapshot(t) ==
    /\ task[t].strategy = "networkFirst"
    /\ Done(t)
    /\ task[t].netState = "failed"
    /\ task[t].cached = NoResp

\* C6 (as claimed): an API GET that fails on the network with no snapshot
\* stored is answered 503 with the JSON body {error, message, offline:true}.
C6_ApiFallbackAlwaysJson ==
    \A t \in Tasks : NfFailedNoSnapshot(t) => task[t].result = OfflineJson

\* C6 (amended): an API GET that fails on the network with no snapshot stored
\* is answered by the fallback generator: 503 with the JSON body {error,
\* message, offline:true} unless the request accepts HTML, in which case the
\* cached shell or the plain-text 503; no partition entry changes on the way.
C6_ApiFallback ==
    /\ [](\A t \in Tasks : NfFailedNoSnapshot(t) =>
            IF AcceptIncludesHtml(task[t].req.accept)
            THEN \/ task[t].result = OfflineText
                 \/ task[t].result = NetResp(PRoot, task[t].result.body,
                                             task[t].result.status)
            ELSE /\ task[t].result.status = 503
                 /\ task[t].result.ctype = "application/json"
                 /\ task[t].result.json =
                      {<<"error", "Offline">>,
                       <<"message", "This feature requires internet connection">>,
                       <<"offline", "true">>})
    /\ [][\A t \in Tasks :
            (/\ task[t].strategy = "networkFirst"
             /\ Stepped(t)
             /\ \/ task[t].pc = "nf_fetch" /\ task'[t].pc = "nf_catch"
                \/ task[t].pc = "nf_catch" /\ task[t].netState = "failed"
                \/ task[t].pc = "fallback" /\ task[t].netState = "failed") =>
                cacheContent' = cacheContent]_vars

\* C6 witness: an API GET that accepts images but not HTML got the JSON answer
C6_Witness ==
    /\ NfFailedNoSnapshot(1)
    /\ task[1].req = Req("GET", PApiMood, AcceptImage, NullBody)
    /\ task[1].result = OfflineJson

\* C7: stale-while-revalidate with a stored snapshot returns that snapshot in
\* the step that finds it, with the fetch still pending; the outcome of the
\* fetch never changes the answer; and the handler changes the partition only
\* in the step after its fetch resolved with a response, to that response.
C7_StaleWhileRevalidateHit ==
    [][\A t \in Tasks :
          /\ (/\ task[t].pc = "swr_match"
              /\ Match(DYNAMIC_CACHE, task[t].req.path) # NoResp
              /\ Stepped(t)) =>
                 /\ task'[t].pc = "done"
                 /\ task'[t].result = Match(DYNAMIC_CACHE, task[t].req.path)
                 /\ task'[t].bg = "fetching"
                 /\ task'[t].netState = "none"
                 /\ cacheContent' = cacheContent
          /\ (/\ Done(t)
              /\ task[t].bg \in {"fetching", "putting"}
              /\ Stepped(t)) =>
                 /\ task'[t].pc = "done"
                 /\ task'[t].result = task[t].result
          /\ (/\ task[t].strategy = "staleWhileRevalidate"
              /\ Stepped(t)
              /\ cacheContent' # cacheContent) =>
                 /\ task[t].bg = "putting"
                 /\ task[t].netState = "ok"
                 /\ task[t].net \in NetResponses(task[t].req.path)
                 /\ cacheContent' =
                      [cacheContent EXCEPT
                         ![DYNAMIC_CACHE][task[t].req.path] = task[t].net]]_vars

\* C7 witness: the snapshot has been returned, the revalidation has stored a
\* different response afterwards
C7_Witness ==
    /\ Done(1)
    /\ task[1].strategy = "staleWhileRevalidate"
    /\ task[1].cached # NoResp
    /\ task[1].result = task[1].cached
    /\ task[1].bg = "resolved"
    /\ task[1].putState = "ok"
    /\ task[2].pc = "idle"
    /\ cacheContent[DYNAMIC_CACHE][task[1].req.path]
         \in NetResponses(task[1].req.path) \ {task[1].cached}

\* C7 witness of the pending fetch: answered while the fetch is in flight
C7_WitnessPending ==
    /\ Done(1)
    /\ task[1].cached # NoResp
    /\ task[1].result = task[1].cached
    /\ task[1].bg = "fetching"

IsFallbackAnswer(r) ==
    r \in {OfflineText, OfflineJson, PlaceholderSvg, Unavailable}
      \cup NetResponses(PRoot)

\* C8 (as claimed): stale-while-revalidate without a snapshot returns the
\* response of the fetch when the fetch succeeds, and a fallback response when
\* it fails.
C8_StaleWhileRevalidateMiss ==
    \A t \in Tasks :
        (/\ task[t].strategy = "staleWhileRevalidate"
         /\ Done(t)
         /\ task[t].cached = NoResp) =>
            /\ task[t].netState = "ok" => task[t].result = task[t].net
            /\ task[t].netState = "failed" => IsFallbackAnswer(task[t].result)

\* C9 (as claimed): when the fetch of a GET succeeded and the put into the
\* partition failed, the requester still receives the fetched response.
C9_PutFailureStillDelivers ==
    \A t \in Tasks :
        (/\ IsGet(t)
         /\ Done(t)
         /\ task[t].netState = "ok"
         /\ task[t].putState = "failed"
         /\ task[t].strategy = "staleWhileRevalidate" => task[t].cached = NoResp) =>
            task[t].result = task[t].net

\* C10: the fallback generator answers in this order: accepts HTML -> the
\* cached shell if present, else the plain-text 503; else API path -> the
\* JSON 503; else accepts images -> the placeholder image with status 200;
\* otherwise the generic 503.
C10_FallbackOrder ==
    [][\A t \in Tasks :
          (task[t].pc = "fallback" /\ Stepped(t)) =>
              LET r == task[t].req
                  shell == cacheContent[STATIC_CACHE][PRoot]
                  html == \E i \in 1..Len(r.accept) : r.accept[i] = <<"text", "html">>
                  image == \E i \in 1..Len(r.accept) : r.accept[i][1] = "image"
                  api == StartsWith(r.path, <<"/", "api", "/">>)
                  res == task'[t].result
              IN  /\ task'[t].pc = "done"
                  /\ (html /\ shell # NoResp) => res = shell
                  /\ (html /\ shell = NoResp) =>
                         res.status = 503 /\ res.ctype = "text/plain"
                  /\ (~html /\ api) =>
                         /\ res.status = 503
                         /\ res.ctype = "application/json"
                         /\ <<"offline", "true">> \in res.json
                         /\ {kv[1] : kv \in res.json} = {"error", "message", "offline"}
                  /\ (~html /\ ~api /\ image) =>
                         res.status = 200 /\ res.ctype = "image/svg+xml"
                  /\ (~html /\ ~api /\ ~image) =>
                         res.status = 503 /\ res.src = "fallback" /\ res.ctype = ""]_vars

\* C10 witness: an image request outside the API got the placeholder
C10_Witness ==
    /\ Done(1)
    /\ task[1].req = Req("GET", PStyles, AcceptImage, NullBody)
    /\ task[1].result = PlaceholderSvg

\* C10 witness of the shell: an HTML request got the cached shell
C10_WitnessShell ==
    /\ Done(1)
    /\ task[1].req = Req("GET", PStyles, AcceptHtml, NullBody)
    /\ task[1].netState = "failed"
    /\ task[1].result = NetResp(PRoot, 1, 200)

---------------------------------------------------------------------------
(* getFallbackResponse and the answer to every GET under storage failure *)

\* the responses getFallbackResponse can build, or the stored shell
WellFormedFallback(r) ==
    \/ IsFallbackAnswer(r)
    \/ r.src = "network" /\ r.url = PRoot

\* C11: getFallbackResponse never throws: whatever the request and the state
\* of storage (the static partition unopenable or unreadable included), the
\* step through getFallbackResponse ends with a well-formed response.
C11_FallbackNeverThrows ==
    [][\A t \in Tasks :
          task[t].pc = "fallback" /\ task'[t].pc = "done"
          => /\ task'[t].result # ErrResp
             /\ WellFormedFallback(task'[t].result)]_vars

\* C12: every intercepted GET is eventually answered, and with a response,
\* never with an error, whatever fails on the network or in storage.
C12_GetAlwaysAnswered ==
    /\ [](\A t \in Tasks : IsGet(t) /\ Done(t) => task[t].result # ErrResp)
    /\ \A t \in Tasks : (IsGet(t) /\ ~Done(t)) ~> Done(t)

---------------------------------------------------------------------------
(* The write path *)

IsPost(t) == task[t].req.method = "POST"

\* the partitions are as they were
PartitionsUnchanged ==
    /\ cacheExists' = cacheExists
    /\ cacheContent' = cacheContent

\* C13: when the network answers a write handled by handlePostRequest, with
\* any status, the handler returns that very response in the same step, and
\* neither the Outbox nor any partition changes; a write the network answered
\* is never queued or acknowledged synthetically.
C13_WriteAnsweredByNetwork ==
    [][\A t \in Tasks :
          /\ IsPost(t) /\ task[t].pc = "post_fetch"
          /\ task'[t].pc # "post_fetch"
          /\ task'[t].netState = "ok"
          => /\ task'[t].pc = "done"
             /\ task'[t].result = task'[t].net
             /\ task'[t].result \in NetResponses(task[t].req.path)
             /\ outbox' = outbox
             /\ PartitionsUnchanged]_vars

\* a write the server answered with its error page came back as it was, with
\* nothing queued
C13_Witness ==
    \E t \in Tasks :
        /\ IsPost(t) /\ Done(t) /\ IsApiPath(task[t].req.path)
        /\ task[t].result = Outcome(task[t].req.path, ServerError)
        /\ outbox = <<>>

\* the Outbox entry of request r, enqueued at time ts
HoldsRequest(e, r, ts) ==
    /\ e.method = r.method
    /\ e.url = r.path
    /\ e.headers = r.accept
    /\ e.body = (IF r.body = NullBody THEN "" ELSE r.body)
    /\ e.timestamp = ts

\* C14: when a write to an API path fails on the network, exactly one Outbox
\* entry holding the request's method, url, headers, body and the time of
\* the enqueue is appended, and the caller receives the status-200 synthetic
\* acknowledgment {success:true, offline:true}.
C14_FailedApiWriteQueuedOnce ==
    [][\A t \in Tasks :
          /\ IsPost(t) /\ task[t].pc = "post_store" /\ task'[t].pc = "done"
          => /\ task'[t].result = QueuedAck
             /\ Len(outbox') = Len(outbox) + 1
             /\ SubSeq(outbox', 1, Len(outbox)) = outbox
             /\ HoldsRequest(outbox'[Len(outbox')], task[t].req, now)]_vars

\* C15: when a write to a path outside /api/ fails on the network, the error
\* reaches the caller in the same step, no synthetic acknowledgment is ever
\* returned for such a path, and the Outbox is unchanged.
C15_NonApiWriteFailurePropagates ==
    [][\A t \in Tasks :
          /\ (/\ ~IsGet(t) /\ task[t].pc \in {"post_fetch", "pass_fetch"}
              /\ task'[t].pc # task[t].pc
              /\ task'[t].netState = "failed"
              /\ ~IsApiPath(task[t].req.path)
              => /\ task'[t].pc = "done"
                 /\ task'[t].result = ErrResp
                 /\ outbox' = outbox)
          /\ (~IsApiPath(task'[t].req.path) => task'[t].result # QueuedAck)]_vars

\* a POST to /contact failed on the network and the caller got the error
C15_Witness ==
    \E t \in Tasks :
        /\ IsPost(t) /\ Done(t) /\ task[t].req.path = PContact
        /\ task[t].netState = "failed"
        /\ task[t].result = ErrResp
        /\ outbox = <<>>

---------------------------------------------------------------------------
(* Replay of the Outbox *)

Entries(q) == {q[j] : j \in 1..Len(q)}

Ids(q) == {q[j].id : j \in 1..Len(q)}

\* the entry whose request call s has in flight
InFlight(s) == sync[s].requests[sync[s].i]

\* call s took a step of the loop: the request it had in flight settled
Settled(s) == sync[s].pc = "fetch" /\ sync'[s] # sync[s]

\* C16: an Outbox entry is removed only in the step in which its own replayed
\* request is answered 2xx; a replayed request that is rejected or answered
\* non-2xx leaves the Outbox as it is; and there is no cutoff: every entry
\* ever enqueued is still queued, unchanged, unless a replay of it was
\* answered 2xx.
C16_RemovedOnlyAfterOwnSuccess ==
    [][/\ \A e \in Entries(outbox) :
             e \notin Entries(outbox')
             => \E s \in Runs :
                   /\ Settled(s)
                   /\ InFlight(s).id = e.id
                   /\ e.id \notin answered
                   /\ e.id \in answered'
       /\ \A s \in Runs :
             Settled(s) /\ answered' = answered => outbox' = outbox
       /\ \A id \in 1..(nextId' - 1) :
             id \in Ids(outbox') \/ id \in answered']_vars

\* a call has ended in which the first entry was answered 2xx and is gone,
\* and the second was refused and is still queued
C16_Witness ==
    \E s \in Runs :
        /\ sync[s].pc = "done"
        /\ Len(sync[s].requests) = 2
        /\ sync[s].requests[1].id \in answered
        /\ sync[s].requests[1].id \notin Ids(outbox)
        /\ sync[s].requests[2] \in Entries(outbox)
        /\ sync[s].requests[2].id \notin answered

\* the entries of q are in strictly increasing key order, and no older entry
\* has a later timestamp
InEnqueueOrder(q) ==
    \A j, k \in 1..Len(q) :
        j < k => q[j].id < q[k].id /\ q[j].timestamp <= q[k].timestamp

\* C17: Outbox entries get strictly increasing identities in enqueue order,
\* and a replay sends its requests in that order, one at a time: the request
\* of an entry is sent only when the requests of all the entries enqueued
\* before it (in the same call) have settled.
C17_ReplayInEnqueueOrder ==
    /\ [](/\ InEnqueueOrder(outbox)
          /\ \A id \in Ids(outbox) : id < nextId
          /\ \A s \in Runs :
                /\ InEnqueueOrder(sync[s].requests)
                /\ sync[s].pc = "fetch" => sync[s].i \in 1..Len(sync[s].requests))
    /\ [][\A s \in Runs :
             sync'[s].pc = "fetch" /\ sync'[s] # sync[s]
             => IF sync[s].pc = "fetch"
                THEN /\ sync'[s].requests = sync[s].requests
                     /\ sync'[s].i = sync[s].i + 1
                ELSE sync'[s].i = 1]_vars

\* the first of two entries has settled and the request of the second, the
\* younger one, is in flight
C17_Witness ==
    \E s \in Runs :
        /\ sync[s].pc = "fetch"
        /\ Len(sync[s].requests) = 2
        /\ sync[s].i = 2
        /\ sync[s].requests[1].id < sync[s].requests[2].id

\* C18 (as claimed): a replay in which every request succeeds leaves none of
\* its entries in the Outbox; a replay that fails for entry k leaves entries
\* k..N queued: once a request of the call has failed, the call removes
\* nothing more.
C18_ReplayStopsAtFailure ==
    [][\A s \in Runs :
          /\ Settled(s) /\ sync[s].failedAt # 0 => outbox' = outbox
          /\ Settled(s) /\ sync'[s].pc = "done" /\ sync'[s].failedAt = 0
             => Ids(sync'[s].requests) \cap Ids(outbox') = {}]_vars

\* C18: a replay in which every request succeeds leaves none of the entries
\* it read in the Outbox; a replay that fails for entry k leaves entry k
\* queued and goes on with the entries after it: each settled request removes
\* its own entry if and only if it was answered 2xx, and leaves every other
\* entry alone.
C18_ReplayRemovesEachOnItsOwn ==
    [][\A s \in Runs :
          Settled(s)
          => /\ outbox' = IF InFlight(s).id \in answered'
                          THEN Deleted(outbox, InFlight(s).id)
                          ELSE outbox
             /\ sync[s].i < Len(sync[s].requests)
                => /\ sync'[s].pc = "fetch"
                   /\ sync'[s].i = sync[s].i + 1
                   /\ sync'[s].requests = sync[s].requests
             /\ sync'[s].pc = "done" /\ sync'[s].failedAt = 0
                => Ids(sync'[s].requests) \cap Ids(outbox') = {}]_vars

\* a call has ended in which the first entry failed and is still queued, and
\* the second, replayed after it, was answered 2xx and is gone
C18_Witness ==
    \E s \in Runs :
        /\ sync[s].pc = "done"
        /\ Len(sync[s].requests) = 2
        /\ sync[s].failedAt = 1
        /\ sync[s].requests[1] \in Entries(outbox)
        /\ sync[s].requests[2].id \in answered
        /\ sync[s].requests[2].id \notin Ids(outbox)

\* C19: a POST to an API path made while the network is down is acknowledged
\* with an entry queued for it; a sync trigger that comes later replays it
\* (the call reads every queued entry); once its request is answered 200 the
\* entry is removed, and no call that starts reading later submits it again.
C19_OfflineWriteReplayedOnce ==
    [][/\ \A t \in Tasks :
             /\ IsPost(t) /\ task[t].pc = "post_store"
             /\ task'[t].result = QueuedAck
             => /\ outbox' # <<>>
                /\ HoldsRequest(outbox'[Len(outbox')], task[t].req, now)
       /\ \A s \in Runs :
             /\ sync[s].pc = "read" /\ sync'[s].pc = "fetch"
                => /\ sync'[s].requests = outbox
                   /\ Ids(sync'[s].requests) \cap answered = {}
             /\ Settled(s) /\ InFlight(s).id \in answered'
                => InFlight(s).id \notin Ids(outbox')]_vars

---------------------------------------------------------------------------
(* Triggers of the replay *)

SyncEvents == {"sync", "sync after SYNC_NOW"}

\* C20 (as claimed): replay is started by each of three triggers: a SYNC_NOW command (the
\* sync it registers, once delivered), a sync signal of the platform, and a
\* periodic scheduler tick; for the tick, under some tag at least.
C20_ThreeReplayTriggers ==
    /\ lastEvent.event \in SyncEvents /\ lastEvent.tag = TagPending
       => lastEvent.handler = "syncPendingRequests"
    /\ lastEvent.event = "message SYNC_NOW"
       => lastEvent.handler = "triggerSync"
    /\ lastEvent.event = "periodicsync"
       => \E tag \in Tags : periodicsyncListener(tag) = "syncPendingRequests"

\* C20: replay is started by a sync event carrying the tag
\* sync-pending-requests and by nothing else: a SYNC_NOW command only
\* registers a sync with the tag it is given (replay starts when the platform
\* delivers it, if the tag is that one), and a periodic scheduler tick never
\* starts replay, whatever its tag.
C20_ReplayTriggers ==
    /\ [](/\ lastEvent.event \in SyncEvents /\ lastEvent.tag = TagPending
             => lastEvent.handler = "syncPendingRequests"
          /\ lastEvent.event = "message SYNC_NOW"
             => lastEvent.handler = "triggerSync"
          /\ lastEvent.event = "periodicsync"
             => lastEvent.handler # "syncPendingRequests")
    /\ [][/\ \A s \in Runs :
                sync'[s].pc = "read" /\ sync[s].pc # "read"
                => /\ lastEvent'.event \in SyncEvents
                   /\ lastEvent'.tag = TagPending
          /\ registered' # registered /\ registered \subseteq registered'
             => /\ lastEvent'.event = "message SYNC_NOW"
                /\ registered' = registered \cup {lastEvent'.tag}
                /\ sync' = sync]_vars

\* a replay has been started by the sync that a SYNC_NOW command registered
C20_Witness ==
    \E s \in Runs :
        /\ sync[s].pc = "read"
        /\ lastEvent = Event("sync after SYNC_NOW", TagPending,
                             "syncPendingRequests")

\* a periodic tick with the replay tag came and no replay is running
C20_WitnessPeriodic ==
    /\ lastEvent.event = "periodicsync"
    /\ lastEvent.tag = TagPending
    /\ \A s \in Runs : sync[s].pc # "read"

---------------------------------------------------------------------------
(* Enqueue and replay together *)

\* C21: the request that replay sends for an Outbox entry has the method,
\* url, headers and body of the write request that was queued: the entry a
\* failed write appends is replayed as that very request.
C21_ReplayIsOriginalRequest ==
    [][\A t \in Tasks :
          /\ IsPost(t) /\ task[t].pc = "post_store"
          /\ Len(outbox') > Len(outbox)
          => replayRequest(outbox'[Len(outbox')]) = task[t].req]_vars

---------------------------------------------------------------------------
(* The batch sync channels *)

\* the collections the batch sync channels read and clear
Collections == <<moodData, progressData>>

\* C22: each batch sync channel sends all the records its collection holds
\* in one single request, and clears the collection only when that request
\* is answered 2xx: after a rejection or a non-2xx answer the collection is
\* as it was, and the channel never touches the collection of the other.
C22_BatchClearedOnlyOnSuccess ==
    [][/\ batch.pc = "read" /\ batch'.pc = "fetch"
          => /\ batch'.sent = JsonArray(BatchRecords(batch.handler, moodData,
                                                     progressData))
             /\ batch'.nreq = 1
             /\ Collections' = Collections
       /\ batch.pc = "read" /\ batch'.pc = "done"
          => batch'.nreq = 0 /\ Collections' = Collections
       /\ batch.pc = "fetch" /\ batch'.pc = "done"
          => /\ batch'.nreq = 1
             /\ IF ResponseOk(batch'.answer)
                THEN BatchRecords(batch.handler, moodData', progressData') = {}
                ELSE Collections' = Collections
             /\ batch.handler = "syncMoodData" => progressData' = progressData
             /\ batch.handler = "syncSessionProgress" => moodData' = moodData]_vars

\* a mood batch was answered non-2xx and the records it held are still there
C22_Witness ==
    /\ batch.pc = "done"
    /\ batch.handler = "syncMoodData"
    /\ batch.nreq = 1
    /\ batch.answer = <<0, 400>>
    /\ batch.sent = JsonArray(MoodRecords(moodData))

\* a progress batch was answered 2xx and the collection is empty, the mood
\* records being untouched
C22_WitnessCleared ==
    /\ batch.pc = "done"
    /\ batch.handler = "syncSessionProgress"
    /\ batch.answer = <<0, 200>>
    /\ progressData = {}
    /\ moodData # NoMoodData

\* C23 (as claimed): the batch syncMoodData sends has the shape the API
\* accepts: when its request reaches the /api/sync-mood handler of the
\* backend, the answer is 2xx and mood_data is then cleared.
C23_MoodBatchAccepted ==
    [][/\ batch.pc = "fetch" /\ batch'.pc = "done"
       /\ batch.handler = "syncMoodData"
       /\ batch'.answer # Rejected
       => ResponseOk(batch'.answer) /\ moodData' = NoMoodData]_vars

---------------------------------------------------------------------------
(* The periodic checks *)

\* a periodic check ran from its start to its end in this step
CheckRan(h) ==
    /\ periodic.pc = "read" /\ periodic.handler = h
    /\ periodic'.pc = "done"

\* the dates of the low records of the last CrisisWindowDays calendar days
\* before the day of instant t, and of that day
LowInLastDays(md, t) ==
    {d \in Dates : /\ md[d] # 0 /\ md[d] <= LowMoodValue
                   /\ d >= Today(t) - CrisisWindowDays /\ d <= Today(t)}

\* C24 (as claimed): a crisis check that could read the records shows the
\* support notification exactly when three or more records dated within the
\* last three calendar days have a value of 2 or less, and then once; low
\* records dated day-1, day-2 and day-3 make it fire.
C24_SupportTrigger ==
    [][CheckRan("checkCrisisSupport") /\ ~periodic'.failed
       => periodic'.shown =
              IF Cardinality(LowInLastDays(moodData, now)) >= CrisisCount
              THEN <<"crisis-support">> ELSE <<>>]_vars

\* C25 (as claimed): a mood reminder check shows exactly one reminder when
\* local storage holds no mood entry for the current date, and none when it
\* holds one.
C25_ReminderTrigger ==
    [][CheckRan("sendMoodReminder")
       => periodic'.shown = IF Today(now) \notin localStorage
                            THEN <<"mood-reminder">> ELSE <<>>]_vars

\* C26: a periodic check changes no partition, no Outbox entry and no record
\* collection and makes no network request, and what it shows is the same
\* with the network reachable and with the network down.
C26_PeriodicChecksOnlyReadAndNotify ==
    [][periodic' # periodic
       => /\ UNCHANGED <<cacheExists, cacheContent, outbox, nextId, moodData,
                         progressData, localStorage, task, batch, registered>>
          /\ periodic'.nreq = 0
          /\ \A h \in PeriodicHandlers :
                CheckRan(h)
                => \E ok, defined \in BOOLEAN : \A online \in BOOLEAN :
                      LET job == periodicsyncRun(periodic, moodData,
                                     localStorage, now, ok, defined, online)
                      IN  /\ job.shown = periodic'.shown
                          /\ job.failed = periodic'.failed]_vars

\* with the network down the crisis check has read the records and shown
\* the support notification
C26_Witness ==
    /\ periodic.pc = "done"
    /\ periodic.handler = "checkCrisisSupport"
    /\ ~periodic.online
    /\ periodic.shown = <<"crisis-support">>
    /\ Cardinality(recentLowMoods(moodData, now)) >= CrisisCount

\* with the network down the reminder check has shown the reminder
C26_WitnessReminder ==
    /\ periodic.pc = "done"
    /\ periodic.handler = "sendMoodReminder"
    /\ ~periodic.online
    /\ periodic.shown = <<"mood-reminder">>

---------------------------------------------------------------------------
(* Control messages *)

\* a message of an unknown type, or without a type, was delivered in this step
UnknownMessage ==
    /\ lastEvent' # lastEvent
    /\ \E type \in UnknownTypes : lastEvent'.event = "message " \o type

\* C27: a message whose type is none of SKIP_WAITING, CACHE_AUDIO,
\* CLEAR_CACHE and SYNC_NOW, or that has no type, calls nothing and changes
\* nothing: no partition, no Outbox entry, no sync registration, no
\* lifecycle state, no handler that is running.
C27_UnknownMessageIgnored ==
    [][UnknownMessage
       => /\ lastEvent'.handler = "none"
          /\ UNCHANGED <<cacheExists, cacheContent, oldCaches, clearPending,
                         outbox, nextId, registered, sync, worker, audioJob,
                         task, batch, periodic, moodData, progressData,
                         localStorage, now, answered>>]_vars

\* an unknown message has come while a partition exists, a write is queued
\* and a sync is registered
C27_Witness ==
    /\ lastEvent = Event("message PING", "none", "none")
    /\ cacheExists[STATIC_CACHE]
    /\ outbox # <<>>
    /\ registered # {}

\* a message without a type has come while a clear-all is under way
C27_WitnessNoType ==
    /\ lastEvent = Event("message ", "none", "none")
    /\ clearPending # {}

\* C28 (as claimed): when the clear-all command completes, every partition
\* that existed when it enumerated them is destroyed and the Outbox is
\* empty.
C28_ClearAllLeavesNothing ==
    [][clearPending # {} /\ clearPending' = {}
       => /\ \A n \in clearPending \cap CacheNames :
                ~cacheExists'[n] /\ cacheContent'[n] = EmptyCache
          /\ oldCaches' \cap clearPending = {}
          /\ outbox' = <<>>]_vars

---------------------------------------------------------------------------
(* Install and activation *)

\* C29: install is all or nothing. The first half of the install step puts
\* every asset of the manifest in the static partition and the second half
\* puts the one essential audio file, and nothing else, in the audio
\* partition; when either half fails the install step does not call
\* skipWaiting and the worker is discarded: it is never waiting, activating
\* or active.
C29_InstallAllOrNothing ==
    /\ [](/\ worker.state \in {"installed", "activating", "activated"}
             => worker.static = "done" /\ worker.audio = "done"
          /\ "failed" \in {worker.static, worker.audio}
             => /\ "install" \notin worker.skipWaiting
                /\ worker.state \in {"installing", "redundant"})
    /\ [][/\ worker.state = "redundant" => worker'.state = "redundant"
          /\ worker.static = "none" /\ worker'.static = "done"
             => /\ \A u \in STATIC_ASSETS :
                      cacheContent'[STATIC_CACHE][u] = NetResp(u, 1, 200)
                /\ \A u \in AllPaths \ STATIC_ASSETS :
                      cacheContent'[STATIC_CACHE][u] =
                          cacheContent[STATIC_CACHE][u]
          /\ worker.audio = "none" /\ worker'.audio = "done"
             => /\ cacheContent'[AUDIO_CACHE][PAudioBreathing] =
                       NetResp(PAudioBreathing, 1, 200)
                /\ \A u \in AllPaths \ {PAudioBreathing} :
                      cacheContent'[AUDIO_CACHE][u] =
                          cacheContent[AUDIO_CACHE][u]]_vars

\* the static assets were cached, the audio file was not, and the worker is
\* discarded without skipWaiting having been called by its install step
C29_Witness ==
    /\ worker.state = "redundant"
    /\ worker.static = "done"
    /\ worker.audio = "failed"
    /\ "install" \notin worker.skipWaiting
    /\ \A u \in STATIC_ASSETS : cacheContent[STATIC_CACHE][u] # NoResp

\* both halves succeeded and the worker is waiting, skipWaiting called
C29_WitnessInstalled ==
    /\ worker.state = "installed"
    /\ "install" \in worker.skipWaiting
    /\ cacheContent[AUDIO_CACHE][PAudioBreathing] # NoResp

\* a partition that exists before this step does not exist after it
PartitionDeleted ==
    \/ \E n \in CacheNames : cacheExists[n] /\ ~cacheExists'[n]
    \/ ~(oldCaches \subseteq oldCaches')

\* C30: the activate handler deletes every partition whose name is not one
\* of the three current names and leaves the partitions of those names as
\* they are; the only other step that deletes a partition is the deletion of
\* the clear-all command.
C30_ActivationDeletesStaleOnly ==
    [][/\ worker.pc = "delete" /\ worker'.pc = "claim"
          => /\ oldCaches' = {}
             /\ cacheExists' = cacheExists
             /\ cacheContent' = cacheContent
       /\ PartitionDeleted
          => \/ worker.pc = "delete" /\ worker'.pc = "claim"
             \/ clearPending # {} /\ clearPending' = {}]_vars

\* activation has deleted the partitions of the older version and the static
\* and audio partitions the install step filled are there
C30_Witness ==
    /\ worker.pc = "claim"
    /\ worker.keys \cap StaleNames = StaleNames
    /\ oldCaches = {}
    /\ cacheExists[STATIC_CACHE] /\ cacheExists[AUDIO_CACHE]
    /\ cacheContent[STATIC_CACHE][PRoot] # NoResp
    /\ cacheContent[AUDIO_CACHE][PAudioBreathing] # NoResp

\* the activate handler completed in this step
ActivationCompleted == worker.pc = "claim" /\ worker'.pc = "done"

\* C31 (as claimed): when activation completes the partitions that exist
\* are exactly those of the three current names.
C31_ExactlyExpectedSet ==
    [][ActivationCompleted => ExistingCaches' = CacheNames]_vars

\* C31: when activation completes, and as long as the worker is active,
\* every partition that exists has one of the three current names: those of
\* other versions are gone. Activation creates no partition: a current name
\* without a partition before activation has none after it.
C31_OnlyExpectedSetRemains ==
    /\ [](worker.state = "activated" => ExistingCaches \subseteq CacheNames)
    /\ [][/\ ActivationCompleted
             => ExistingCaches' \subseteq CacheNames /\ cacheExists' = cacheExists
          /\ worker.pc = "delete" /\ worker'.pc = "claim"
             => \A n \in CacheNames : cacheExists'[n] = cacheExists[n]]_vars

\* the worker is active, the partitions of the older version that the
\* activate handler enumerated are gone, the static partition is there and
\* no dynamic partition exists
C31_Witness ==
    /\ worker.state = "activated"
    /\ worker.keys \cap StaleNames = StaleNames
    /\ oldCaches = {}
    /\ cacheExists[STATIC_CACHE]
    /\ ~cacheExists[DYNAMIC_CACHE]

\* the steps of the life of a worker instance
LifecycleSteps ==
    { <<"installing", "installed">>, <<"installed", "activating">>,
      <<"activating", "activated">>, <<"installing", "redundant">> }

\* C32: a worker instance goes from installing to waiting, from waiting to
\* activating and from activating to active, one state at a time and never
\* back (a failed install ends it instead); clients.claim() is called only
\* when the deletion of the stale partitions has completed.
C32_LifecycleOrder ==
    /\ [](worker.claimed => worker.keys \cap oldCaches = {})
    /\ [][/\ worker'.state # worker.state
             => <<worker.state, worker'.state>> \in LifecycleSteps
          /\ worker'.claimed /\ ~worker.claimed
             => /\ worker.pc = "claim"
                /\ worker.state = "activating"
                /\ oldCaches = {}]_vars

\* the worker is active and has claimed its clients, having been told to
\* skip waiting by its install step, and the stale partitions it enumerated
\* are deleted
C32_Witness ==
    /\ worker.state = "activated"
    /\ worker.claimed
    /\ "install" \in worker.skipWaiting
    /\ worker.keys \cap StaleNames # {}
    /\ worker.keys \cap oldCaches = {}

---------------------------------------------------------------------------
(* Snapshots *)

\* the partition of name n is destroyed in this step, by the deletion of the
\* clear-all command or by that of the activate handler
Destroyed(n) ==
    /\ ~cacheExists'[n]
    /\ \/ n \in clearPending /\ clearPending' = {}
       \/ worker.pc = "delete" /\ worker'.pc = "claim"

\* a handler puts a response of the network for url u in this step
PutFor(u, resp) ==
    /\ resp.src = "network" /\ resp.url = u
    /\ \/ \E t \in Tasks : Stepped(t)
       \/ audioJob'.pc # audioJob.pc

\* C33: a snapshot stored in a partition stays there, readable and
\* unchanged, whatever fetch, sync, periodicsync, push and message events
\* come, until a put for the same url replaces it or the whole partition is
\* destroyed by the clear-all command or by activation: no entry expires.
C33_NoEntryExpiry ==
    /\ [](\A n \in CacheNames : \A u \in AllPaths :
             cacheContent[n][u] # NoResp => cacheExists[n])
    /\ [][\A n \in CacheNames :
             /\ cacheExists[n] /\ ~cacheExists'[n] => Destroyed(n)
             /\ \A u \in AllPaths :
                   /\ cacheContent[n][u] # NoResp
                   /\ cacheContent'[n][u] # cacheContent[n][u]
                   => \/ PutFor(u, cacheContent'[n][u])
                      \/ Destroyed(n)]_vars

\* two snapshots are in the dynamic partition and one in the static
\* partition after a replay, a periodic check and a push have come and gone
C33_Witness ==
    /\ cacheContent[DYNAMIC_CACHE][PApiMood] # NoResp
    /\ cacheContent[DYNAMIC_CACHE][PStyles] # NoResp
    /\ cacheContent[STATIC_CACHE][PRoot] # NoResp
    /\ lastEvent.event = "push"
    /\ periodic.pc = "done"
    /\ sync[1].pc = "done"

\* C34: a url of a partition maps to one snapshot, and that snapshot is a
\* response the network returned for that url: the one a handler had fetched
\* and put last, also when several handlers for the same url run
\* interleaved. Fallback responses and acknowledgments are never stored.
C34_SnapshotIsLastNetworkResponse ==
    /\ [](\A n \in CacheNames : \A u \in AllPaths :
             cacheContent[n][u] # NoResp
             => cacheContent[n][u] \in NetResponses(u))
    /\ [][\A t \in Tasks :
             /\ task[t].bg = "putting" /\ task'[t].bg = "resolved"
             /\ task[t].handleLive
             => cacheContent'[task[t].cacheName][task[t].req.path] = task[t].net]_vars

\* two handlers for the same url ran interleaved and both have put: the one
\* was served the 200 snapshot, which the 500 answer the other fetched has
\* replaced
C34_Witness ==
    \E t1, t2 \in Tasks :
        /\ t1 # t2
        /\ task[t1].putState = "ok" /\ task[t2].putState = "ok"
        /\ task[t1].pc = "done" /\ task[t2].pc = "done"
        /\ task[t2].result = NetResp(PStyles, 1, 200)
        /\ cacheContent[DYNAMIC_CACHE][PStyles] = NetResp(PStyles, 0, 500)

---------------------------------------------------------------------------
(* The acknowledgment of a queued write *)

\* C35 (as claimed): when a write is answered with the acknowledgment
\* {success: true, offline: true}, the Outbox holds an entry for that
\* request at that moment: the acknowledgment is not given for a request
\* whose enqueue failed.
C35_AckImpliesQueued ==
    [][\A t \in Tasks :
          /\ task[t].pc = "post_store" /\ task'[t].pc = "done"
          /\ task'[t].result = QueuedAck
          => /\ Len(outbox') = Len(outbox) + 1
             /\ HoldsRequest(outbox'[Len(outbox')], task[t].req, now)]_vars

---------------------------------------------------------------------------
(* Overlapping replay *)

\* the entry whose request run s awaits
Current(s) == sync[s].requests[sync[s].i]

\* C36 (as claimed): with overlapping calls of syncPendingRequests, no
\* entry is submitted once a submission of it has been answered 2xx, and no
\* entry is answered 2xx twice.
C36_NoResubmissionAfterSuccess ==
    [][\A s \in Runs :
          /\ /\ sync'[s].pc = "fetch"
             /\ sync[s].pc # "fetch" \/ sync'[s].i # sync[s].i
             => sync'[s].requests[sync'[s].i].id \notin answered'
          /\ /\ sync[s].pc = "fetch" /\ sync'[s] # sync[s]
             /\ sync'[s].failedAt = 0
             => Current(s).id \notin answered]_vars

---------------------------------------------------------------------------
(* Records written while a batch is under way *)

\* C37 (as claimed): a batch sync deletes only records that were part of the
\* batch: a record the page wrote after the batch was read is still in the
\* collection when the sync has completed.
C37_BatchClearsOnlyWhatItSent ==
    [][batch.pc = "fetch" /\ batch'.pc = "done"
       => \A rec \in BatchRecords(batch.handler, moodData, progressData)
                        \ batch.sent.records :
             rec \in BatchRecords(batch.handler, moodData', progressData')]_vars

---------------------------------------------------------------------------
(* Draining the Outbox *)

\* C38: the number of writes is bounded, so from some point on no write is
\* enqueued. If also from some point on no replayed request fails (each is
\* answered 2xx), while sync events keep being delivered, the Outbox
\* eventually is empty and stays empty.
C38_OutboxDrains ==
    <>[](sync[1].failedAt = 0) => <>[](outbox = <<>>)

\* every write the model sends has been queued and replayed with success
\* and the Outbox is empty
C38_Witness ==
    /\ outbox = <<>>
    /\ nextId > MaxEnqueued
    /\ Cardinality(answered) = MaxEnqueued
    /\ sync[1].pc = "done"

---------------------------------------------------------------------------
(* Manifest entries as path suffixes *)

\* paths under the API or the audio namespace that end with a manifest entry
InNamespace(p) == StartsWith(p, PApiNs) \/ Includes(p, PAudioNs)

ShadowedPaths ==
    { p \in AllPaths \cup {PApiNs, PAudioNs} :
        InNamespace(p) /\ \E a \in STATIC_ASSETS : EndsWith(p, a) }

\* C39: a GET whose path lies under /api/ or /audio/ and ends with a manifest
\* entry is classified cache-first on the static partition; its handler never
\* takes a network-first step, no other partition ever holds its fingerprint,
\* and once the static partition holds a snapshot of it the call returns
\* that snapshot without a network request.
C39_SuffixShadowsNamespace ==
    /\ [](/\ \A p \in ShadowedPaths :
               /\ handleGetRequest(p) =
                    [strategy |-> "cacheFirst", cacheName |-> STATIC_CACHE]
               /\ p \in AllPaths =>
                    /\ cacheContent[DYNAMIC_CACHE][p] = NoResp
                    /\ cacheContent[AUDIO_CACHE][p] = NoResp
          /\ \A t \in Tasks :
               (IsGet(t) /\ task[t].req.path \in ShadowedPaths) =>
                   /\ task[t].strategy = "cacheFirst"
                   /\ task[t].cacheName = STATIC_CACHE
                   /\ task[t].pc \in StrategyPcs("cacheFirst"))
    /\ [][\A t \in Tasks :
            (/\ task[t].pc = "cf_match"
             /\ task[t].req.path \in ShadowedPaths
             /\ Match(STATIC_CACHE, task[t].req.path) # NoResp
             /\ Stepped(t)) =>
                /\ task'[t].pc = "done"
                /\ task'[t].result = Match(STATIC_CACHE, task[t].req.path)
                /\ task'[t].nfetch = 0]_vars

\* a GET of /api/index.html has been answered from the static partition
\* without a network request, and a GET of /audio/index.html has been stored
\* in the static partition
C39_Witness ==
    /\ Done(1)
    /\ task[1].req.path = PApiIndex
    /\ task[1].nfetch = 0
    /\ task[1].result = cacheContent[STATIC_CACHE][PApiIndex]
    /\ task[1].result \in NetResponses(PApiIndex)
    /\ cacheContent[STATIC_CACHE][PAudioIndex] \in NetResponses(PAudioIndex)

---------------------------------------------------------------------------
(* Responses are stored whatever their status *)

\* C40 (as claimed): a fetch of a GET that resolves with a response, 2xx or
\* not, is followed by the put of that response, which replaces the snapshot
\* of the fingerprint when it succeeds on a partition that was not deleted
\* since the handler opened it; a cache-first call that finds a snapshot, 2xx or not,
\* returns it without a network request; and a network-first call returns a
\* stored snapshot only when its fetch rejected.
C40_StoredWhateverStatus ==
    /\ [][\A t \in Tasks :
            /\ (/\ task[t].pc \in {"cf_fetch", "nf_fetch"}
                /\ Stepped(t)
                /\ task'[t].netState = "ok") =>
                   /\ task'[t].pc \in {"cf_put", "nf_put"}
                   /\ task'[t].net \in NetResponses(task[t].req.path)
            /\ (/\ task[t].bg = "fetching"
                /\ Stepped(t)
                /\ task'[t].netState = "ok") =>
                   /\ task'[t].bg = "putting"
                   /\ task'[t].net \in NetResponses(task[t].req.path)
            /\ (/\ \/ task[t].pc = "nf_put"
                   \/ task[t].pc = "cf_put" /\ task[t].handleLive
                   \/ task[t].bg = "putting" /\ task[t].handleLive
                /\ Stepped(t)
                /\ task'[t].putState = "ok") =>
                   Match(task[t].cacheName, task[t].req.path)' = task[t].net
            /\ (/\ task[t].pc = "cf_match"
                /\ Match(task[t].cacheName, task[t].req.path) # NoResp
                /\ Stepped(t)) =>
                   /\ task'[t].result = Match(task[t].cacheName, task[t].req.path)
                   /\ task'[t].nfetch = 0]_vars
    /\ [](\A t \in Tasks :
            (/\ Done(t)
             /\ task[t].strategy = "networkFirst"
             /\ task[t].cached # NoResp
             /\ task[t].result = task[t].cached) =>
                task[t].netState = "failed")

====
